---------------------------- MODULE Spec2Model ----------------------------
(***************************************************************************)
(* A model of claude-code-proxy: the streaming transcoder                  *)
(* (internal/server/handlers.go, streamOpenAIToClaude) and the capability  *)
(* cache (internal/config/config.go).                                      *)
(*                                                                         *)
(* A JSON object is a function whose DOMAIN is the set of keys present,    *)
(* so "key absent" is k \notin DOMAIN obj; the empty object is <<>>.       *)
(* A key that is present has the type the code's type assertion asks for,  *)
(* except where a wrong type is modelled by a tag (choices[0].isObject).   *)
(* A string of tool-call arguments is a sequence of characters.            *)
(***************************************************************************)
EXTENDS Integers, Sequences, FiniteSets, TLC

VARIABLES
    pc,                       \* position of streamOpenAIToClaude
    lines,                    \* history: the upstream lines consumed so far
    events,                   \* the SSE events written to the client, in order
    thinkingBlockStarted,
    thinkingBlockHasContent,
    textBlockStarted,
    toolBlockCounter,
    currentToolCalls,         \* tcIndex -> ToolCallState
    toolOrder,                \* history: tcIndex values in order of first sight
    finalStopReason,
    usageData,
    cache,                    \* modelCapabilityCache: key -> pointer, NilCaps if absent
    heap,                     \* the ModelCapabilities structs, by pointer
    readers,                  \* capabilityCacheMutex: callers holding RLock
    writer,                   \* capabilityCacheMutex: caller holding Lock, or 0
    clock,                    \* time.Now(), a logical clock
    cpc,                      \* per caller: position in Get/SetModelCapabilities
    cop,                      \* per caller: the call in progress
    calls,                    \* history: the number of calls begun
    writeLog,                 \* history: per key, the puts in the order they wrote
    donePuts,                 \* history: per key, the puts that have returned
    rpc,                      \* position of handleMessages for the request
    cfg,                      \* the *config.Config the server was started with
    claudeReq,                \* the client request: headers and parsed body
    openaiReq,                \* the upstream request ConvertRequest built
    attempts,                 \* history: the upstream requests sent, in order
    upstreamResp,             \* the upstream's answer to the last attempt
    reply,                    \* the HTTP reply to the client
    call,                     \* the last call of a pure function, with its result
    dpc,                      \* per process: position in main and daemon.Start
    pidFile,                  \* /tmp/claude-code-proxy.pid: what it holds
    listener,                 \* the process listening on port 8082, if any
    startResult               \* history: per process, what Start returned

streamVars == <<pc, lines, events, thinkingBlockStarted, thinkingBlockHasContent,
                textBlockStarted, toolBlockCounter, currentToolCalls, toolOrder,
                finalStopReason, usageData>>

cacheVars == <<cache, heap, readers, writer, clock, cpc, cop, calls, writeLog,
               donePuts>>

reqVars == <<rpc, cfg, claudeReq, openaiReq, attempts, upstreamResp, reply>>

daemonVars == <<dpc, pidFile, listener, startResult>>

nonStreamVars == <<cacheVars, reqVars, call, daemonVars>>

nonCacheVars == <<streamVars, reqVars, call, daemonVars>>

vars == <<streamVars, cacheVars, reqVars, call, daemonVars>>

-----------------------------------------------------------------------------
(* Bounds *)

MaxLines == 4

NumProcesses == 2

MaxCalls == 3

NumCallers == 2

-----------------------------------------------------------------------------
(* JSON helpers *)

Has(obj, k) == k \in DOMAIN obj

\* v, ok := obj[k].(string); ok && v != ""
NonEmptyString(obj, k) == Has(obj, k) /\ obj[k] # ""

textBlockIndex == 1

thinkingBlockIndex == 0

InitialToolBlockCounter == 2

\* json.Unmarshal([]byte(buf), &jsonTest) == nil, for texts over the
\* characters "[", "]" and "1": a number 1+, or an array of at most one value.
RECURSIVE IsValidJSON(_)
IsValidJSON(buf) ==
    /\ Len(buf) > 0
    /\ IF buf[1] = "1"
       THEN \A i \in 1..Len(buf) : buf[i] = "1"
       ELSE /\ buf[1] = "["
            /\ Len(buf) >= 2
            /\ buf[Len(buf)] = "]"
            /\ \/ Len(buf) = 2
               \/ IsValidJSON(SubSeq(buf, 2, Len(buf) - 1))

ZeroUsage ==
    [input_tokens |-> 0, output_tokens |-> 0,
     cache_creation_input_tokens |-> 0, cache_read_input_tokens |-> 0,
     cache_creation |-> [ephemeral_5m_input_tokens |-> 0,
                         ephemeral_1h_input_tokens |-> 0]]

-----------------------------------------------------------------------------
(* Strings.  A string the code inspects (a model name, a URL, an error     *)
(* body, a message text) is a sequence of one-character strings, so that    *)
(* strings.ToLower, strings.Contains, strings.HasPrefix, strings.TrimPrefix *)
(* and strings.Join are computed, not assumed.                              *)

UpperCase ==
    <<"A", "B", "C", "D", "E", "F", "G", "H", "I", "J", "K", "L", "M",
      "N", "O", "P", "Q", "R", "S", "T", "U", "V", "W", "X", "Y", "Z">>

LowerCase ==
    <<"a", "b", "c", "d", "e", "f", "g", "h", "i", "j", "k", "l", "m",
      "n", "o", "p", "q", "r", "s", "t", "u", "v", "w", "x", "y", "z">>

ToLowerChar(ch) ==
    IF \E i \in DOMAIN UpperCase : UpperCase[i] = ch
    THEN LowerCase[CHOOSE i \in DOMAIN UpperCase : UpperCase[i] = ch]
    ELSE ch

ToLower(str) == [i \in DOMAIN str |-> ToLowerChar(str[i])]

Contains(str, substr) ==
    \E i \in 0..(Len(str) - Len(substr)) :
        SubSeq(str, i + 1, i + Len(substr)) = substr

HasPrefix(str, prefix) ==
    Len(prefix) <= Len(str) /\ SubSeq(str, 1, Len(prefix)) = prefix

TrimPrefix(str, prefix) ==
    IF HasPrefix(str, prefix)
    THEN SubSeq(str, Len(prefix) + 1, Len(str))
    ELSE str

RECURSIVE Join(_, _)
Join(parts, sep) ==
    IF parts = <<>> THEN <<>>
    ELSE IF Len(parts) = 1 THEN parts[1]
    ELSE parts[1] \o sep \o Join(Tail(parts), sep)

\* All concatenations of 1..n strings of the set Fragments
RECURSIVE Concatenations(_, _)
Concatenations(Fragments, n) ==
    IF n = 0 THEN {}
    ELSE Fragments
         \cup {a \o b : a \in Fragments, b \in Concatenations(Fragments, n - 1)}

EmptyString == <<>>

haiku == <<"h", "a", "i", "k", "u">>

sonnet == <<"s", "o", "n", "n", "e", "t">>

opus == <<"o", "p", "u", "s">>

gpt5 == <<"g", "p", "t", "-", "5">>

gpt4o == <<"g", "p", "t", "-", "4", "o">>

-----------------------------------------------------------------------------
(* SSE events *)

EvMessageStart == [type |-> "message_start", usage |-> ZeroUsage]

EvPing == [type |-> "ping"]

EvBlockStart(idx, block) ==
    [type |-> "content_block_start", index |-> idx, content_block |-> block]

EvBlockDelta(idx, delta) ==
    [type |-> "content_block_delta", index |-> idx, delta |-> delta]

EvBlockStop(idx) == [type |-> "content_block_stop", index |-> idx]

EvMessageDelta(stop, usage) ==
    [type |-> "message_delta", stop_reason |-> stop, usage |-> usage]

EvMessageStop == [type |-> "message_stop"]

\* handlers.go 795-804
EvError == [type |-> "error", error |-> [type |-> "api_error"]]
-----------------------------------------------------------------------------
(* The transcoder's per-request state, as one record st:                   *)
(* events, thinkingBlockStarted, thinkingBlockHasContent, textBlockStarted,*)
(* toolBlockCounter, currentToolCalls, toolOrder, finalStopReason,         *)
(* usageData.                                                              *)

Emit(st, ev) == [st EXCEPT !.events = Append(@, ev)]

\* handlers.go 370-402: a usage object replaces usageData by a fresh map
UsageFromChunk(usage) ==
    LET base == [input_tokens  |-> IF Has(usage, "prompt_tokens")
                                   THEN usage.prompt_tokens ELSE 0,
                 output_tokens |-> IF Has(usage, "completion_tokens")
                                   THEN usage.completion_tokens ELSE 0]
    IN  IF /\ Has(usage, "prompt_tokens_details")
           /\ Has(usage.prompt_tokens_details, "cached_tokens")
           /\ usage.prompt_tokens_details.cached_tokens > 0
        THEN ("cache_read_input_tokens" :>
                  usage.prompt_tokens_details.cached_tokens) @@ base
        ELSE base

AbsorbUsage(st, chunk) ==
    IF Has(chunk, "usage")
    THEN [st EXCEPT !.usageData = UsageFromChunk(chunk.usage)]
    ELSE st

\* handlers.go 422-445: delta.reasoning_content (OpenAI o1/o3)
HandleReasoningContent(st, delta) ==
    IF NonEmptyString(delta, "reasoning_content")
    THEN LET s1 == IF ~st.thinkingBlockStarted
                   THEN [Emit(st, EvBlockStart(thinkingBlockIndex,
                                               [type |-> "thinking"]))
                           EXCEPT !.thinkingBlockStarted = TRUE,
                                  !.thinkingBlockHasContent = TRUE]
                   ELSE st
         IN  Emit(s1, EvBlockDelta(thinkingBlockIndex,
                                   [type |-> "thinking_delta",
                                    text |-> delta.reasoning_content]))
    ELSE st

\* handlers.go 454-469: the text of one reasoning_details element
DetailText(detail) ==
    LET detailType == IF Has(detail, "type") THEN detail.type ELSE ""
    IN  IF detailType = "reasoning.text"
        THEN (IF Has(detail, "text") THEN detail.text ELSE "")
        ELSE IF detailType = "reasoning.summary"
        THEN (IF Has(detail, "summary") THEN detail.summary ELSE "")
        ELSE ""

\* handlers.go 471-497: one thinking fragment of the OpenRouter formats
EmitThinking(st, thinkingText) ==
    LET s1 == IF ~st.thinkingBlockStarted
              THEN [Emit(st, EvBlockStart(thinkingBlockIndex,
                                          [type |-> "thinking", thinking |-> ""]))
                      EXCEPT !.thinkingBlockStarted = TRUE]
              ELSE st
    IN  [Emit(s1, EvBlockDelta(thinkingBlockIndex,
                               [type |-> "thinking_delta",
                                thinking |-> thinkingText]))
           EXCEPT !.thinkingBlockHasContent = TRUE]

\* handlers.go 451-499: the loop over delta.reasoning_details
RECURSIVE HandleDetails(_, _)
HandleDetails(st, details) ==
    IF details = <<>>
    THEN st
    ELSE LET thinkingText == DetailText(Head(details))
         IN  HandleDetails(IF thinkingText # ""
                           THEN EmitThinking(st, thinkingText)
                           ELSE st,
                           Tail(details))

\* handlers.go 449-501: only when delta["reasoning"] == nil
HandleReasoningDetails(st, delta) ==
    IF Has(delta, "reasoning_details") /\ ~Has(delta, "reasoning")
    THEN HandleDetails(st, delta.reasoning_details)
    ELSE st

\* handlers.go 504-530: delta.reasoning as a plain string
HandleReasoning(st, delta) ==
    IF NonEmptyString(delta, "reasoning")
    THEN EmitThinking(st, delta.reasoning)
    ELSE st

\* handlers.go 533-557: delta.content
HandleContent(st, delta) ==
    IF NonEmptyString(delta, "content")
    THEN LET s1 == IF ~st.textBlockStarted
                   THEN [Emit(st, EvBlockStart(textBlockIndex,
                                               [type |-> "text", text |-> ""]))
                           EXCEPT !.textBlockStarted = TRUE]
                   ELSE st
         IN  Emit(s1, EvBlockDelta(textBlockIndex,
                                   [type |-> "text_delta",
                                    text |-> delta.content]))
    ELSE st

\* handlers.go 583-590
NewToolCallState ==
    [ID |-> "", Name |-> "", ArgsBuffer |-> <<>>, JSONSent |-> FALSE,
     ClaudeIndex |-> 0, Started |-> FALSE]

\* Mutant of NextClaudeIndex: every tool call gets the index after the text
\* block
FirstClaudeIndex(counter) == textBlockIndex + 1

\* handlers.go 608-609: the block index given to a tool call that starts
NextClaudeIndex(counter) == textBlockIndex + (counter + 1)

\* handlers.go 607: the test that opens the tool_use block
ReadyToStart(toolCall) ==
    toolCall.ID # "" /\ toolCall.Name # "" /\ ~toolCall.Started

\* handlers.go 606-624: open the tool_use block of entry tcIndex
StartToolBlock(st, tcIndex) ==
    LET toolCall == st.currentToolCalls[tcIndex]
        claudeIndex == NextClaudeIndex(st.toolBlockCounter)
    IN  IF ReadyToStart(toolCall)
        THEN [Emit(st, EvBlockStart(claudeIndex,
                                    [type |-> "tool_use", id |-> toolCall.ID,
                                     name |-> toolCall.Name]))
                EXCEPT !.toolBlockCounter = @ + 1,
                       !.currentToolCalls[tcIndex].ClaudeIndex = claudeIndex,
                       !.currentToolCalls[tcIndex].Started = TRUE]
        ELSE st

\* Mutant of HandleArguments: the Started flag is not consulted
HandleArgumentsUnstarted(st, tcIndex, functionData) ==
    IF Has(functionData, "arguments")
    THEN LET s1 == [st EXCEPT !.currentToolCalls[tcIndex].ArgsBuffer =
                                   @ \o functionData.arguments]
             toolCall == s1.currentToolCalls[tcIndex]
         IN  IF /\ toolCall.ArgsBuffer # <<>>
                /\ IsValidJSON(toolCall.ArgsBuffer)
                /\ ~toolCall.JSONSent
             THEN [Emit(s1, EvBlockDelta(toolCall.ClaudeIndex,
                                         [type |-> "input_json_delta",
                                          partial_json |-> toolCall.ArgsBuffer]))
                     EXCEPT !.currentToolCalls[tcIndex].JSONSent = TRUE]
             ELSE s1
    ELSE st

\* handlers.go 629-655: accumulate function.arguments, send the buffer once
HandleArguments(st, tcIndex, functionData) ==
    IF Has(functionData, "arguments") /\ st.currentToolCalls[tcIndex].Started
    THEN LET s1 == [st EXCEPT !.currentToolCalls[tcIndex].ArgsBuffer =
                                   @ \o functionData.arguments]
             toolCall == s1.currentToolCalls[tcIndex]
         IN  IF /\ toolCall.ArgsBuffer # <<>>
                /\ IsValidJSON(toolCall.ArgsBuffer)
                /\ ~toolCall.JSONSent
             THEN [Emit(s1, EvBlockDelta(toolCall.ClaudeIndex,
                                         [type |-> "input_json_delta",
                                          partial_json |-> toolCall.ArgsBuffer]))
                     EXCEPT !.currentToolCalls[tcIndex].JSONSent = TRUE]
             ELSE s1
    ELSE st

\* handlers.go 601-656: the function object of one tool_calls entry
HandleFunction(st, tcIndex, tcDelta) ==
    IF Has(tcDelta, "function")
    THEN LET functionData == tcDelta.function
             s1 == IF Has(functionData, "name")
                   THEN [st EXCEPT !.currentToolCalls[tcIndex].Name =
                                        functionData.name]
                   ELSE st
         IN  HandleArguments(StartToolBlock(s1, tcIndex), tcIndex, functionData)
    ELSE st

\* handlers.go 570-656: one entry of delta.tool_calls
HandleToolCallDelta(st, tcDelta) ==
    LET tcIndex == IF Has(tcDelta, "index") THEN tcDelta.index ELSE 0
        s1 == IF tcIndex \in DOMAIN st.currentToolCalls
              THEN st
              ELSE [st EXCEPT !.currentToolCalls =
                                   (tcIndex :> NewToolCallState) @@ @,
                              !.toolOrder = Append(@, tcIndex)]
        s2 == IF Has(tcDelta, "id")
              THEN [s1 EXCEPT !.currentToolCalls[tcIndex].ID = tcDelta.id]
              ELSE s1
    IN  HandleFunction(s2, tcIndex, tcDelta)

\* handlers.go 571-573: an entry of tool_calls that is an object
IsObjectEntry(tcRaw) == Has(tcRaw, "isObject") => tcRaw.isObject

\* handlers.go 569-657: the loop over delta.tool_calls
RECURSIVE HandleToolCallList(_, _)
HandleToolCallList(st, toolCalls) ==
    IF toolCalls = <<>>
    THEN st
    ELSE HandleToolCallList(IF IsObjectEntry(Head(toolCalls))
                            THEN HandleToolCallDelta(st, Head(toolCalls))
                            ELSE st,
                            Tail(toolCalls))

HandleToolCalls(st, delta) ==
    IF Has(delta, "tool_calls")
    THEN HandleToolCallList(st, delta.tool_calls)
    ELSE st

\* handlers.go 664-672
MapFinishReason(finishReason) ==
    IF finishReason = "length" THEN "max_tokens"
    ELSE IF finishReason \in {"tool_calls", "function_call"} THEN "tool_use"
    ELSE "end_turn"

\* handlers.go 663-674
HandleFinishReason(st, choice) ==
    IF NonEmptyString(choice, "finish_reason")
    THEN [st EXCEPT !.finalStopReason = MapFinishReason(choice.finish_reason)]
    ELSE st

\* handlers.go 410: choices[0].(map[string]interface{}) without the ok test
Panics(chunk) ==
    /\ Has(chunk, "choices")
    /\ Len(chunk.choices) > 0
    /\ ~chunk.choices[1].isObject

\* handlers.go 404-414: the chunk has a choices[0].delta object
HasDelta(chunk) ==
    /\ Has(chunk, "choices")
    /\ Len(chunk.choices) > 0
    /\ chunk.choices[1].isObject
    /\ Has(chunk.choices[1], "delta")

\* handlers.go 370-675: one parsed chunk that does not panic
ProcessChunk(st, chunk) ==
    LET s1 == AbsorbUsage(st, chunk)
    IN  IF ~HasDelta(chunk)
        THEN s1
        ELSE LET choice == chunk.choices[1]
                 delta == choice.delta
                 s2 == HandleReasoningContent(s1, delta)
                 s3 == HandleReasoningDetails(s2, delta)
                 s4 == HandleReasoning(s3, delta)
                 s5 == HandleContent(s4, delta)
                 s6 == HandleToolCalls(s5, delta)
             IN  HandleFinishReason(s6, choice)

\* handlers.go 689-698: the stops of the started tool calls, in the order
\* `order` in which the map iteration visits the entries
RECURSIVE ToolStops(_, _)
ToolStops(toolCalls, order) ==
    IF order = <<>>
    THEN <<>>
    ELSE LET toolData == toolCalls[Head(order)]
         IN  (IF toolData.Started /\ toolData.ClaudeIndex # 0
              THEN <<EvBlockStop(toolData.ClaudeIndex)>>
              ELSE <<>>) \o ToolStops(toolCalls, Tail(order))

\* handlers.go 677-785: what is written after the chunk loop
FinalEvents(st, order, scanErr) ==
    (IF st.textBlockStarted THEN <<EvBlockStop(textBlockIndex)>> ELSE <<>>)
    \o ToolStops(st.currentToolCalls, order)
    \o (IF st.thinkingBlockStarted /\ st.thinkingBlockHasContent
        THEN <<EvBlockStop(thinkingBlockIndex)>> ELSE <<>>)
    \o <<EvMessageDelta(st.finalStopReason, st.usageData), EvMessageStop>>
    \o (IF scanErr THEN <<EvError>> ELSE <<>>)

\* The orders in which a range over a Go map with key set S may visit it
MapOrders(S) ==
    {f \in [1..Cardinality(S) -> S] :
        \A i, j \in 1..Cardinality(S) : i # j => f[i] # f[j]}
-----------------------------------------------------------------------------
(* Upstream lines.  A line is [kind |-> ...]: "blank", "comment" (starts    *)
(* with ':'), "nodata" (no "data: " prefix), "badjson" (payload does not    *)
(* parse), "done" (data: [DONE]) or "data" with the parsed chunk.           *)

DeltaChunk(delta) == [choices |-> <<[isObject |-> TRUE, delta |-> delta]>>]

FinishChunk(delta, finishReason) ==
    [choices |-> <<[isObject |-> TRUE, delta |-> delta,
                    finish_reason |-> finishReason]>>]

UsageChunk(usage) == [usage |-> usage]

DataLine(chunk) == [kind |-> "data", chunk |-> chunk]

DoneText == "[DONE]"

\* The delta's text, reasoning or reasoning_content is the given string
DeltaCarries(delta, text) ==
    \E key \in {"content", "reasoning", "reasoning_content"} :
        Has(delta, key) /\ delta[key] = text

\* Mutant of ContainsDone: a chunk with a finish_reason ends the loop too
ContainsDoneOrFinish(line) ==
    \/ line.kind = "done"
    \/ /\ line.kind = "data"
       /\ HasDelta(line.chunk)
       /\ \/ DeltaCarries(line.chunk.choices[1].delta, DoneText)
          \/ NonEmptyString(line.chunk.choices[1], "finish_reason")
    \/ /\ line.kind \in {"nodata", "badjson"}
       /\ Has(line, "text")
       /\ line.text = DoneText

\* handlers.go 349: strings.Contains(line, "[DONE]") looks at the whole line,
\* a JSON payload included, and comes before the test of the "data: " prefix
\* and before the payload is parsed; a line that is no chunk may carry its
\* text
ContainsDone(line) ==
    \/ line.kind = "done"
    \/ /\ line.kind = "data"
       /\ HasDelta(line.chunk)
       /\ DeltaCarries(line.chunk.choices[1].delta, DoneText)
    \/ /\ line.kind \in {"nodata", "badjson"}
       /\ Has(line, "text")
       /\ line.text = DoneText

\* handlers.go 344, 354, 361: the lines the loop passes over
IsSkipped(line) ==
    /\ ~ContainsDone(line)
    /\ line.kind \in {"blank", "comment", "nodata", "badjson"}

Cur ==
    [events |-> events,
     thinkingBlockStarted |-> thinkingBlockStarted,
     thinkingBlockHasContent |-> thinkingBlockHasContent,
     textBlockStarted |-> textBlockStarted,
     toolBlockCounter |-> toolBlockCounter,
     currentToolCalls |-> currentToolCalls,
     toolOrder |-> toolOrder,
     finalStopReason |-> finalStopReason,
     usageData |-> usageData]

Become(st) ==
    /\ events' = st.events
    /\ thinkingBlockStarted' = st.thinkingBlockStarted
    /\ thinkingBlockHasContent' = st.thinkingBlockHasContent
    /\ textBlockStarted' = st.textBlockStarted
    /\ toolBlockCounter' = st.toolBlockCounter
    /\ currentToolCalls' = st.currentToolCalls
    /\ toolOrder' = st.toolOrder
    /\ finalStopReason' = st.finalStopReason
    /\ usageData' = st.usageData

\* handlers.go 286-307: the state after the declarations
InitStream ==
    /\ pc = "start"
    /\ lines = <<>>
    /\ events = <<>>
    /\ thinkingBlockStarted = FALSE
    /\ thinkingBlockHasContent = FALSE
    /\ textBlockStarted = FALSE
    /\ toolBlockCounter = InitialToolBlockCounter
    /\ currentToolCalls = <<>>
    /\ toolOrder = <<>>
    /\ finalStopReason = "end_turn"
    /\ usageData = ZeroUsage

\* handlers.go 309-337: message_start and ping, before the first read
StreamStart ==
    /\ pc = "start"
    /\ pc' = "loop"
    /\ events' = <<EvMessageStart, EvPing>>
    /\ UNCHANGED <<lines, thinkingBlockStarted, thinkingBlockHasContent,
                   textBlockStarted, toolBlockCounter, currentToolCalls,
                   toolOrder, finalStopReason, usageData, nonStreamVars>>

\* handlers.go 343-363: a line the loop passes over
SkipLine(Lines) ==
    /\ pc = "loop"
    /\ Len(lines) < MaxLines
    /\ \E line \in Lines :
          /\ IsSkipped(line)
          /\ lines' = Append(lines, line)
    /\ UNCHANGED <<pc, events, thinkingBlockStarted, thinkingBlockHasContent,
                   textBlockStarted, toolBlockCounter, currentToolCalls,
                   toolOrder, finalStopReason, usageData, nonStreamVars>>

\* handlers.go 358-675: a data line whose payload parses and is processed
ChunkLine(Lines) ==
    /\ pc = "loop"
    /\ Len(lines) < MaxLines
    /\ \E line \in Lines :
          /\ line.kind = "data"
          /\ ~ContainsDone(line)
          /\ ~Panics(line.chunk)
          /\ lines' = Append(lines, line)
          /\ Become(ProcessChunk(Cur, line.chunk))
    /\ UNCHANGED <<pc, nonStreamVars>>

\* handlers.go 370-410: the usage is absorbed, then the type assertion on
\* choices[0] panics and the transcoder writes nothing more
PanicLine(Lines) ==
    /\ pc = "loop"
    /\ Len(lines) < MaxLines
    /\ \E line \in Lines :
          /\ line.kind = "data"
          /\ ~ContainsDone(line)
          /\ Panics(line.chunk)
          /\ lines' = Append(lines, line)
          /\ Become(AbsorbUsage(Cur, line.chunk))
    /\ pc' = "panicked"
    /\ UNCHANGED nonStreamVars

\* handlers.go 677-785 after the loop has ended
Finish(scanErr) ==
    /\ \E order \in MapOrders(DOMAIN currentToolCalls) :
          events' = events \o FinalEvents(Cur, order, scanErr)
    /\ pc' = "done"
    /\ UNCHANGED <<thinkingBlockStarted, thinkingBlockHasContent,
                   textBlockStarted, toolBlockCounter, currentToolCalls,
                   toolOrder, finalStopReason, usageData, nonStreamVars>>

\* handlers.go 349-351: a line containing [DONE] ends the loop
DoneLine(Lines) ==
    /\ pc = "loop"
    /\ \E line \in Lines :
          /\ line.kind \notin {"blank", "comment"}
          /\ ContainsDone(line)
          /\ lines' = Append(lines, line)
    /\ Finish(FALSE)

\* handlers.go 340: scanner.Scan() is false at the end of the upstream body
EndOfBody ==
    /\ pc = "loop"
    /\ lines' = Append(lines, [kind |-> "eof"])
    /\ Finish(FALSE)

\* handlers.go 340, 782-784: scanner.Scan() is false after a read error or a
\* line longer than the buffer, and scanner.Err() reports it at the end
ScanError ==
    /\ pc = "loop"
    /\ lines' = Append(lines, [kind |-> "readerror"])
    /\ Finish(TRUE)

StreamNext(Lines) ==
    \/ StreamStart
    \/ SkipLine(Lines)
    \/ ChunkLine(Lines)
    \/ PanicLine(Lines)
    \/ DoneLine(Lines)
    \/ EndOfBody
    \/ ScanError
-----------------------------------------------------------------------------
(* The capability cache, internal/config/config.go.  Callers are the       *)
(* goroutines of concurrent requests.  capabilityCacheMutex is a           *)
(* sync.RWMutex: any number of read locks, or one write lock.  The model    *)
(* lets a reader in whenever no writer holds the lock; Go also keeps new    *)
(* readers out while a writer waits, which only removes behaviours.         *)

Callers == 1..NumCallers

Keys == {gpt5, gpt4o}

NilCaps == 0

NoCaller == 0

Idle == [op |-> "none"]

InitCache ==
    /\ cache = [k \in Keys |-> NilCaps]
    /\ heap = <<>>
    /\ readers = {}
    /\ writer = NoCaller
    /\ clock = 0
    /\ cpc = [c \in Callers |-> "idle"]
    /\ cop = [c \in Callers |-> Idle]
    /\ calls = 0
    /\ writeLog = [k \in Keys |-> <<>>]
    /\ donePuts = [k \in Keys |-> {}]

\* config.go 189: a caller enters GetModelCapabilities(key)
GetBegin(c) ==
    /\ cpc[c] = "idle"
    /\ calls < MaxCalls
    /\ \E key \in Keys :
          cop' = [cop EXCEPT ![c] = [op |-> "get", key |-> key,
                                     seen |-> donePuts[key]]]
    /\ cpc' = [cpc EXCEPT ![c] = "rlock"]
    /\ calls' = calls + 1
    /\ UNCHANGED <<cache, heap, readers, writer, clock, writeLog, donePuts,
                   nonCacheVars>>

\* config.go 190: capabilityCacheMutex.RLock()
\* Mutant of MayRLock: a reader that does not wait for the writer
MayRLockAlways == TRUE

\* sync.RWMutex: a read lock is granted while no writer holds the lock
MayRLock == writer = NoCaller

GetRLock(c) ==
    /\ cpc[c] = "rlock"
    /\ MayRLock
    /\ readers' = readers \cup {c}
    /\ cpc' = [cpc EXCEPT ![c] = "read"]
    /\ UNCHANGED <<cache, heap, writer, clock, cop, calls, writeLog, donePuts,
                   nonCacheVars>>

\* A map read that runs while another goroutine is at the map write of line
\* 202 is a data race
MapRace == \E w \in Callers : cpc[w] = "store"

\* What the map read can return: the entry, or under a data race any pointer
\* or nil (the runtime may also abort the process, which adds no state)
ReadOutcomes(key) ==
    IF MapRace THEN DOMAIN heap \cup {NilCaps} ELSE {cache[key]}

\* config.go 192: the value of modelCapabilityCache[key]; `at` is history,
\* the number of puts that had written the key when it was read
GetRead(c) ==
    /\ cpc[c] = "read"
    /\ \E ptr \in ReadOutcomes(cop[c].key) :
          cop' = [cop EXCEPT ![c] = ("result" :> ptr)
                                    @@ ("at" :> Len(writeLog[cop[c].key])) @@ @]
    /\ cpc' = [cpc EXCEPT ![c] = "runlock"]
    /\ UNCHANGED <<cache, heap, readers, writer, clock, calls, writeLog,
                   donePuts, nonCacheVars>>

\* config.go 191: the deferred RUnlock(), and the return
GetReturn(c) ==
    /\ cpc[c] = "runlock"
    /\ readers' = readers \ {c}
    /\ cpc' = [cpc EXCEPT ![c] = IF cop[c].result = NilCaps
                                 THEN "idle" ELSE "useBool"]
    /\ UNCHANGED <<cache, heap, writer, clock, cop, calls, writeLog, donePuts,
                   nonCacheVars>>

\* config.go 217-223: the caller reads caps.UsesMaxCompletionTokens through
\* the pointer, after the read lock is released
UseUsesMaxCompletionTokens(c) ==
    /\ cpc[c] = "useBool"
    /\ cop' = [cop EXCEPT ![c] =
                  ("uses" :> heap[cop[c].result].UsesMaxCompletionTokens) @@ @]
    /\ cpc' = [cpc EXCEPT ![c] = "useTime"]
    /\ UNCHANGED <<cache, heap, readers, writer, clock, calls, writeLog,
                   donePuts, nonCacheVars>>

\* config.go 38-41: the caller reads caps.LastChecked, the other field
UseLastChecked(c) ==
    /\ cpc[c] = "useTime"
    /\ cop' = [cop EXCEPT ![c] =
                  ("checked" :> heap[cop[c].result].LastChecked) @@ @]
    /\ cpc' = [cpc EXCEPT ![c] = "idle"]
    /\ UNCHANGED <<cache, heap, readers, writer, clock, calls, writeLog,
                   donePuts, nonCacheVars>>

\* config.go 198: a caller enters SetModelCapabilities(key, capabilities)
\* with a pointer to a struct it has just built
PutBegin(c) ==
    /\ cpc[c] = "idle"
    /\ calls < MaxCalls
    /\ \E key \in Keys, uses \in BOOLEAN :
          /\ cop' = [cop EXCEPT ![c] = [op |-> "put", key |-> key,
                                        ptr |-> calls + 1]]
          /\ heap' = ((calls + 1) :> [UsesMaxCompletionTokens |-> uses,
                                      LastChecked |-> 0]) @@ heap
    /\ cpc' = [cpc EXCEPT ![c] = "lock"]
    /\ calls' = calls + 1
    /\ UNCHANGED <<cache, readers, writer, clock, writeLog, donePuts,
                   nonCacheVars>>

\* config.go 199: capabilityCacheMutex.Lock()
PutLock(c) ==
    /\ cpc[c] = "lock"
    /\ writer = NoCaller
    /\ readers = {}
    /\ writer' = c
    /\ cpc' = [cpc EXCEPT ![c] = "stamp"]
    /\ UNCHANGED <<cache, heap, readers, clock, cop, calls, writeLog,
                   donePuts, nonCacheVars>>

\* config.go 201: capabilities.LastChecked = time.Now()
PutStamp(c) ==
    /\ cpc[c] = "stamp"
    /\ clock' = clock + 1
    /\ heap' = [heap EXCEPT ![cop[c].ptr].LastChecked = clock + 1]
    /\ cpc' = [cpc EXCEPT ![c] = "store"]
    /\ UNCHANGED <<cache, readers, writer, cop, calls, writeLog, donePuts,
                   nonCacheVars>>

\* Mutant of StoreCaps: an entry that exists is kept
StoreIfAbsent(m, key, ptr) ==
    IF m[key] = NilCaps THEN [m EXCEPT ![key] = ptr] ELSE m

\* config.go 202: modelCapabilityCache[key] = capabilities
StoreCaps(m, key, ptr) == [m EXCEPT ![key] = ptr]

PutStore(c) ==
    /\ cpc[c] = "store"
    /\ cache' = StoreCaps(cache, cop[c].key, cop[c].ptr)
    /\ writeLog' = [writeLog EXCEPT ![cop[c].key] = Append(@, cop[c].ptr)]
    /\ cpc' = [cpc EXCEPT ![c] = "unlock"]
    /\ UNCHANGED <<heap, readers, writer, clock, cop, calls, donePuts,
                   nonCacheVars>>

\* config.go 200: the deferred Unlock(), and the return
PutReturn(c) ==
    /\ cpc[c] = "unlock"
    /\ writer' = NoCaller
    /\ donePuts' = [donePuts EXCEPT ![cop[c].key] = @ \cup {cop[c].ptr}]
    /\ cpc' = [cpc EXCEPT ![c] = "idle"]
    /\ UNCHANGED <<cache, heap, readers, clock, cop, calls, writeLog,
                   nonCacheVars>>

CacheNext ==
    \E c \in Callers :
        \/ GetBegin(c)
        \/ GetRLock(c)
        \/ GetRead(c)
        \/ GetReturn(c)
        \/ UseUsesMaxCompletionTokens(c)
        \/ UseLastChecked(c)
        \/ PutBegin(c)
        \/ PutLock(c)
        \/ PutStamp(c)
        \/ PutStore(c)
        \/ PutReturn(c)

NoValue == [kind |-> "none"]

NoCall == [fn |-> "none"]

\* Before a request arrives and before any function is called
InitRequest ==
    /\ rpc = "idle"
    /\ cfg = NoValue
    /\ claudeReq = NoValue
    /\ openaiReq = NoValue
    /\ attempts = <<>>
    /\ upstreamResp = NoValue
    /\ reply = NoValue
    /\ call = NoCall

-----------------------------------------------------------------------------
(* The startup sequence, main.go (src/unnamed/part_008) 68-84 and           *)
(* daemon.go 16-125, run by NumProcesses processes at once.  The PID file   *)
(* is absent or holds bytes; os.WriteFile creates or truncates it and then  *)
(* writes, in two steps.  The health check answers when a process listens.  *)

Procs == 1 .. NumProcesses

NoFile == [exists |-> FALSE]

FileOf(data) == [exists |-> TRUE, data |-> data]

\* daemon.go 89-92: strconv.Itoa(os.Getpid())
PIDOf(p) == <<p>>

Alive(p) == dpc[p] # "exited"

\* daemon.go 19-23: http.Get(healthURL) succeeds with status 200
HealthAnswers == listener # {}

\* daemon.go 106-120: the PID file holds the PID of a live process
isProcessRunning ==
    /\ pidFile.exists
    /\ pidFile.data # <<>>
    /\ Alive(pidFile.data[1])

InitDaemon ==
    /\ dpc = [p \in Procs |-> "main"]
    /\ pidFile = NoFile
    /\ listener = {}
    /\ startResult = [p \in Procs |-> "none"]

\* part_008 68-72, daemon.go 19-23: main asks the health endpoint
MainHealth(p) ==
    /\ dpc[p] = "main"
    /\ dpc' = [dpc EXCEPT ![p] = IF HealthAnswers THEN "exited"
                                 ELSE "mainFile"]
    /\ UNCHANGED <<pidFile, listener, startResult>>

\* part_008 68-72, daemon.go 25-26: main falls back to the PID file
MainFile(p) ==
    /\ dpc[p] = "mainFile"
    /\ dpc' = [dpc EXCEPT ![p] = IF isProcessRunning THEN "exited"
                                 ELSE "start"]
    /\ UNCHANGED <<pidFile, listener, startResult>>

\* daemon.go 32-34, 19-23: Start asks the health endpoint
StartHealth(p) ==
    /\ dpc[p] = "start"
    /\ IF HealthAnswers
       THEN /\ dpc' = [dpc EXCEPT ![p] = "exited"]
            /\ startResult' = [startResult EXCEPT ![p] = "error"]
       ELSE /\ dpc' = [dpc EXCEPT ![p] = "startFile"]
            /\ UNCHANGED startResult
    /\ UNCHANGED <<pidFile, listener>>

\* daemon.go 32-34, 25-26: Start falls back to the PID file
StartFile(p) ==
    /\ dpc[p] = "startFile"
    /\ IF isProcessRunning
       THEN /\ dpc' = [dpc EXCEPT ![p] = "exited"]
            /\ startResult' = [startResult EXCEPT ![p] = "error"]
       ELSE /\ dpc' = [dpc EXCEPT ![p] = "cleanup"]
            /\ UNCHANGED startResult
    /\ UNCHANGED <<pidFile, listener>>

\* daemon.go 37, 102-104: os.Remove(pidFile)
CleanupPID(p) ==
    /\ dpc[p] = "cleanup"
    /\ pidFile' = NoFile
    /\ dpc' = [dpc EXCEPT ![p] = "open"]
    /\ UNCHANGED <<listener, startResult>>

\* daemon.go 91: os.WriteFile creates or truncates the file
OpenPID(p) ==
    /\ dpc[p] = "open"
    /\ pidFile' = FileOf(<<>>)
    /\ dpc' = [dpc EXCEPT ![p] = "write"]
    /\ UNCHANGED <<listener, startResult>>

\* daemon.go 91, 44-45: os.WriteFile writes the PID and Start returns nil
WritePID(p) ==
    /\ dpc[p] = "write"
    /\ pidFile' = FileOf(PIDOf(p))
    /\ startResult' = [startResult EXCEPT ![p] = "nil"]
    /\ dpc' = [dpc EXCEPT ![p] = "listen"]
    /\ UNCHANGED listener

\* part_008 80-84, server.go 103: app.Listen binds the port, or fails and
\* main exits with the PID file left as it is
Listen(p) ==
    /\ dpc[p] = "listen"
    /\ IF listener = {}
       THEN /\ listener' = {p}
            /\ dpc' = [dpc EXCEPT ![p] = "serving"]
       ELSE /\ dpc' = [dpc EXCEPT ![p] = "exited"]
            /\ UNCHANGED listener
    /\ UNCHANGED <<pidFile, startResult>>

\* server.go 68-76: on SIGINT or SIGTERM, daemon.Cleanup and app.Shutdown
Shutdown(p) ==
    /\ dpc[p] = "serving"
    /\ pidFile' = NoFile
    /\ listener' = listener \ {p}
    /\ dpc' = [dpc EXCEPT ![p] = "exited"]
    /\ UNCHANGED startResult

DaemonNext ==
    /\ \E p \in Procs :
          \/ MainHealth(p)
          \/ MainFile(p)
          \/ StartHealth(p)
          \/ StartFile(p)
          \/ CleanupPID(p)
          \/ OpenPID(p)
          \/ WritePID(p)
          \/ Listen(p)
          \/ Shutdown(p)
    /\ UNCHANGED <<streamVars, cacheVars, reqVars, call>>

Init ==
    /\ InitStream
    /\ InitCache
    /\ InitRequest
    /\ InitDaemon

\* Processes running the startup sequence at the same time
SpecDaemon == Init /\ [][DaemonNext]_vars

\* The capability cache under concurrent callers
SpecCache == Init /\ [][CacheNext]_vars
-----------------------------------------------------------------------------
(* The model router, converter.go (src/unnamed/part_003) 397-406, 573-606  *)

DefaultOpusModel == gpt5

DefaultSonnetModel == gpt5

DefaultHaikuModel == gpt5 \o <<"-", "m", "i", "n", "i">>

\* Mutant of mapModel: the keywords are looked for in the name as given
mapModelCaseSensitive(claudeModel, c) ==
    IF Contains(claudeModel, haiku)
    THEN (IF c.HaikuModel # EmptyString THEN c.HaikuModel ELSE DefaultHaikuModel)
    ELSE IF Contains(claudeModel, sonnet)
    THEN (IF c.SonnetModel # EmptyString THEN c.SonnetModel
          ELSE DefaultSonnetModel)
    ELSE IF Contains(claudeModel, opus)
    THEN (IF c.OpusModel # EmptyString THEN c.OpusModel ELSE DefaultOpusModel)
    ELSE claudeModel

mapModel(claudeModel, c) ==
    LET modelLower == ToLower(claudeModel)
    IN  IF Contains(modelLower, haiku)
        THEN (IF c.HaikuModel # EmptyString THEN c.HaikuModel
              ELSE DefaultHaikuModel)
        ELSE IF Contains(modelLower, sonnet)
        THEN (IF c.SonnetModel # EmptyString THEN c.SonnetModel
              ELSE DefaultSonnetModel)
        ELSE IF Contains(modelLower, opus)
        THEN (IF c.OpusModel # EmptyString THEN c.OpusModel
              ELSE DefaultOpusModel)
        ELSE claudeModel

\* Client model names: tier keywords in either case, versions, other models
NameFragments ==
    {<<"c", "l", "a", "u", "d", "e", "-">>, haiku,
     <<"S", "o", "n", "n", "e", "t">>, <<"O", "P", "U", "S">>,
     <<"-", "3">>, gpt4o}

MaxFragments == 3

ClientModels == Concatenations(NameFragments, MaxFragments)

\* ANTHROPIC_DEFAULT_{OPUS,SONNET,HAIKU}_MODEL, each unset or set
RoutingConfigs ==
    [OpusModel : {EmptyString, <<"g", "r", "o", "k">>},
     SonnetModel : {EmptyString, <<"g", "e", "m", "i", "n", "i">>},
     HaikuModel : {EmptyString, <<"q", "w", "e", "n">>}]

MapModelCall ==
    /\ call = NoCall
    /\ \E claudeModel \in ClientModels, c \in RoutingConfigs :
          call' = [fn |-> "mapModel", claudeModel |-> claudeModel, cfg |-> c,
                   result |-> mapModel(claudeModel, c)]
    /\ UNCHANGED <<streamVars, cacheVars, reqVars, daemonVars>>

\* The model router on client model names and routing overrides
SpecRouter == Init /\ [][MapModelCall]_vars

-----------------------------------------------------------------------------
(* Configuration, internal/config/config.go 82-183                         *)

localhost == <<"l", "o", "c", "a", "l", "h", "o", "s", "t">>

loopback == <<"1", "2", "7", ".", "0", ".", "0", ".", "1">>

openaiHost == <<"a", "p", "i", ".", "o", "p", "e", "n", "a", "i", ".",
                "c", "o", "m">>

DefaultBaseURL ==
    <<"h", "t", "t", "p", "s", ":", "/", "/">> \o openaiHost \o <<"/", "v", "1">>

DummyKey == <<"o", "l", "l", "a", "m", "a">>

\* config.go 149-154
getEnvOrDefault(env, key, defaultValue) ==
    IF env[key] # EmptyString THEN env[key] ELSE defaultValue

\* config.go 180-183
IsLocalhost(c) ==
    LET baseURL == ToLower(c.OpenAIBaseURL)
    IN  Contains(baseURL, localhost) \/ Contains(baseURL, loopback)

\* config.go 103-136: the configuration built from the environment, or the
\* error of line 130
Load(env) ==
    LET c == [OpenAIAPIKey  |-> env.OPENAI_API_KEY,
              OpenAIBaseURL |-> getEnvOrDefault(env, "OPENAI_BASE_URL",
                                                DefaultBaseURL),
              Debug         |-> FALSE]
    IN  IF c.OpenAIAPIKey = EmptyString
        THEN IF /\ ~Contains(c.OpenAIBaseURL, localhost)
                /\ ~Contains(c.OpenAIBaseURL, loopback)
             THEN [ok |-> FALSE]
             ELSE [ok |-> TRUE, cfg |-> [c EXCEPT !.OpenAIAPIKey = DummyKey]]
        ELSE [ok |-> TRUE, cfg |-> c]

\* config.go 140-147
LoadWithDebug(env, debug) ==
    LET loaded == Load(env)
    IN  IF ~loaded.ok
        THEN loaded
        ELSE [ok |-> TRUE, cfg |-> [loaded.cfg EXCEPT !.Debug = debug]]

\* Base URLs: hosts in either case, with and without scheme and port
URLFragments ==
    {<<"h", "t", "t", "p", ":", "/", "/">>, localhost,
     <<"L", "o", "c", "a", "l", "H", "o", "s", "t">>, loopback, openaiHost,
     <<":", "1", "1", "4", "3", "4">>}

Environments ==
    [OPENAI_API_KEY : {EmptyString, <<"s", "k">>},
     OPENAI_BASE_URL :
         {EmptyString} \cup Concatenations(URLFragments, MaxFragments)]

LoadCall ==
    /\ call = NoCall
    /\ \E env \in Environments, debug \in BOOLEAN :
          call' = [fn |-> "LoadWithDebug", env |-> env, debug |-> debug,
                   result |-> LoadWithDebug(env, debug)]
    /\ UNCHANGED <<streamVars, cacheVars, reqVars, daemonVars>>

\* Configuration construction on environments with and without a key
SpecConfig == Init /\ [][LoadCall]_vars

-----------------------------------------------------------------------------
(* Message conversion, converter.go (src/unnamed/part_003) 617-743.        *)
(* msg.Content is [kind |-> "string", value |-> text], [kind |-> "blocks",  *)
(* blocks |-> <<...>>] or another JSON value; a block that is a JSON object *)
(* is a function with isObject = TRUE and the keys present.  An upstream    *)
(* message carries `from`, the position of the input message it was built   *)
(* from (0 for the system text), as history.                                *)

NewLine == <<"\n">>

OpenAIMessage(role, content, toolCalls, toolCallID) ==
    [Role |-> role, Content |-> content, ToolCalls |-> toolCalls,
     ToolCallID |-> toolCallID]

\* part_003 646-653: the first pass
HasToolResultBlock(blocks) ==
    \E i \in DOMAIN blocks :
        /\ blocks[i].isObject
        /\ Has(blocks[i], "type")
        /\ blocks[i].type = "tool_result"

\* part_003 700-709: the text items of a tool result, joined by newlines
RECURSIVE TextsOf(_)
TextsOf(items) ==
    IF items = <<>> THEN <<>>
    ELSE LET item == Head(items)
         IN  IF /\ item.isObject
                /\ Has(item, "type") /\ item.type = "text"
                /\ Has(item, "text")
             THEN <<item.text>> \o TextsOf(Tail(items))
             ELSE TextsOf(Tail(items))

\* part_003 692-710
ToolContent(blockMap) ==
    IF Has(blockMap, "content") /\ blockMap.content.kind = "string"
    THEN blockMap.content.value
    ELSE IF Has(blockMap, "content") /\ blockMap.content.kind = "blocks"
    THEN Join(TextsOf(blockMap.content.blocks), NewLine)
    ELSE EmptyString

\* part_003 669-687
ToolCallOf(blockMap) ==
    [ID   |-> IF Has(blockMap, "id") THEN blockMap.id ELSE "",
     Type |-> "function",
     Function |->
         [Name      |-> IF Has(blockMap, "name") THEN blockMap.name ELSE "",
          Arguments |-> IF Has(blockMap, "input") THEN blockMap.input
                        ELSE EmptyString]]

\* part_003 656-719: one block of the second pass; acc is the loop's
\* textParts, toolCalls and the messages appended so far
ConvertBlock(block, acc) ==
    IF ~block.isObject \/ ~Has(block, "type")
    THEN acc
    ELSE CASE block.type = "text" ->
                IF Has(block, "text")
                THEN [acc EXCEPT !.textParts = Append(@, block.text)]
                ELSE acc
           [] block.type = "tool_use" ->
                [acc EXCEPT !.toolCalls = Append(@, ToolCallOf(block))]
           [] block.type = "tool_result" ->
                [acc EXCEPT !.out =
                    Append(@, OpenAIMessage("tool", ToolContent(block), <<>>,
                                            IF Has(block, "tool_use_id")
                                            THEN block.tool_use_id ELSE ""))]
           [] OTHER -> acc

RECURSIVE ConvertBlocks(_, _)
ConvertBlocks(blocks, acc) ==
    IF blocks = <<>>
    THEN acc
    ELSE ConvertBlocks(Tail(blocks), ConvertBlock(Head(blocks), acc))

\* Mutant of EmitsRoleMessage: the message is added also next to tool results
EmitsRoleMessageAlways(textParts, toolCalls, hasToolResult) ==
    Len(textParts) > 0 \/ Len(toolCalls) > 0

\* part_003 722-731
EmitsRoleMessage(textParts, toolCalls, hasToolResult) ==
    /\ Len(textParts) > 0 \/ Len(toolCalls) > 0
    /\ ~hasToolResult

\* part_003 629-739: the upstream messages of one input message
ConvertMessage(msg) ==
    CASE msg.Content.kind = "string" ->
            <<OpenAIMessage(msg.Role, msg.Content.value, <<>>, "")>>
      [] msg.Content.kind = "blocks" ->
            LET hasToolResult == HasToolResultBlock(msg.Content.blocks)
                acc == ConvertBlocks(msg.Content.blocks,
                                     [textParts |-> <<>>, toolCalls |-> <<>>,
                                      out |-> <<>>])
            IN  IF EmitsRoleMessage(acc.textParts, acc.toolCalls,
                                    hasToolResult)
                THEN Append(acc.out,
                            OpenAIMessage(msg.Role,
                                          Join(acc.textParts, NewLine),
                                          acc.toolCalls, ""))
                ELSE acc.out
      [] OTHER ->
            <<OpenAIMessage(msg.Role, msg.Content, <<>>, "")>>

From(messages, i) ==
    [j \in DOMAIN messages |-> ("from" :> i) @@ messages[j]]

RECURSIVE ConvertFrom(_, _)
ConvertFrom(claudeMessages, i) ==
    IF i > Len(claudeMessages)
    THEN <<>>
    ELSE From(ConvertMessage(claudeMessages[i]), i)
         \o ConvertFrom(claudeMessages, i + 1)

\* part_003 617-743
convertMessages(claudeMessages, system) ==
    (IF system # EmptyString
     THEN From(<<OpenAIMessage("system", system, <<>>, "")>>, 0)
     ELSE <<>>)
    \o ConvertFrom(claudeMessages, 1)

StringContent(text) == [kind |-> "string", value |-> text]

BlocksContent(blocks) == [kind |-> "blocks", blocks |-> blocks]

TextBlock(text) == [isObject |-> TRUE, type |-> "text", text |-> text]

\* Blocks of every type, with and without their fields
InputBlocks ==
    {TextBlock(<<"a">>),
     [isObject |-> TRUE, type |-> "text"],
     [isObject |-> TRUE, type |-> "tool_use", id |-> "u1", name |-> "f",
      input |-> <<"{", "}">>],
     [isObject |-> TRUE, type |-> "tool_result", tool_use_id |-> "c1",
      content |-> StringContent(<<"4", "2">>)],
     [isObject |-> TRUE, type |-> "tool_result", tool_use_id |-> "c2",
      content |-> BlocksContent(<<TextBlock(<<"x">>),
                                  [isObject |-> TRUE, type |-> "image"],
                                  [isObject |-> FALSE],
                                  TextBlock(<<"y">>)>>)],
     [isObject |-> TRUE, type |-> "tool_result",
      content |-> [kind |-> "number"]],
     [isObject |-> FALSE]}

MaxBlocks == 3

RECURSIVE BlockLists(_)
BlockLists(n) ==
    IF n = 0 THEN {<<>>}
    ELSE {<<>>} \cup {<<b>> \o rest : b \in InputBlocks,
                                      rest \in BlockLists(n - 1)}

PlainMessage == [Role |-> "assistant", Content |-> StringContent(<<"h", "i">>)]

InputMessages ==
    {[Role |-> role, Content |-> BlocksContent(blocks)] :
        role \in {"user", "assistant"}, blocks \in BlockLists(MaxBlocks)}
    \cup {PlainMessage, [Role |-> "user", Content |-> [kind |-> "number"]]}

MessageLists ==
    {<<m>> : m \in InputMessages}
    \cup {<<m, PlainMessage>> : m \in InputMessages}
    \cup {<<PlainMessage, m>> : m \in InputMessages}

ConvertMessagesCall ==
    /\ call = NoCall
    /\ \E claudeMessages \in MessageLists, system \in {EmptyString, <<"s">>} :
          call' = [fn |-> "convertMessages",
                   claudeMessages |-> claudeMessages, system |-> system,
                   result |-> convertMessages(claudeMessages, system)]
    /\ UNCHANGED <<streamVars, cacheVars, reqVars, daemonVars>>

\* Message conversion on block lists of every shape
SpecMessages == Init /\ [][ConvertMessagesCall]_vars

-----------------------------------------------------------------------------
(* The request transcoder, converter.go (src/unnamed/part_003) 408-571,    *)
(* 745-847.  A *bool is "nil", "true" or "false"; a nil map is <<>>; an     *)
(* int or string field left out by omitempty has its zero value.            *)

azurePrefix == <<"a", "z", "u", "r", "e", "/">>

openaiPrefix == <<"o", "p", "e", "n", "a", "i", "/">>

slashGpt5 == <<"/", "g", "p", "t", "-", "5">>

openrouterHost == <<"o", "p", "e", "n", "r", "o", "u", "t", "e", "r", ".",
    "a", "i">>

\* Mutant of isReasoningModel: the capability cache decides
isReasoningModelUnlessRecorded(modelName) ==
    \/ modelName \notin Keys
    \/ cache[modelName] = NilCaps
    \/ heap[cache[modelName]].UsesMaxCompletionTokens

\* part_003 414-435
isReasoningModel(modelName) ==
    LET model == TrimPrefix(TrimPrefix(ToLower(modelName), azurePrefix),
                            openaiPrefix)
    IN  \/ HasPrefix(model, <<"o", "1">>)
        \/ HasPrefix(model, <<"o", "3">>)
        \/ HasPrefix(model, <<"o", "4">>)
        \/ HasPrefix(model, gpt5)
        \/ Contains(model, slashGpt5)

\* Mutant of DetectProvider: the hosts are looked for in the URL as given
DetectProviderCaseSensitive(c) ==
    LET baseURL == c.OpenAIBaseURL
    IN  IF Contains(baseURL, openrouterHost) THEN "openrouter"
        ELSE IF Contains(baseURL, openaiHost) THEN "openai"
        ELSE IF Contains(baseURL, localhost) \/ Contains(baseURL, loopback)
        THEN "ollama"
        ELSE "unknown"

\* config.go 164-177
DetectProvider(c) ==
    LET baseURL == ToLower(c.OpenAIBaseURL)
    IN  IF Contains(baseURL, openrouterHost) THEN "openrouter"
        ELSE IF Contains(baseURL, openaiHost) THEN "openai"
        ELSE IF Contains(baseURL, localhost) \/ Contains(baseURL, loopback)
        THEN "ollama"
        ELSE "unknown"

\* part_003 440-466
extractSystemText(system) ==
    IF system.kind = "string" THEN system.value
    ELSE IF system.kind = "blocks" THEN Join(TextsOf(system.blocks), NewLine)
    ELSE EmptyString

\* part_003 747-760
convertTools(claudeTools) ==
    [i \in DOMAIN claudeTools |->
        [Type |-> "function",
         Function |-> [Name |-> claudeTools[i].Name,
                       Description |-> claudeTools[i].Description,
                       Parameters |-> claudeTools[i].InputSchema]]]

IsStreaming(req) == req.Stream = "true"

\* Mutant of ConvertRequest: the legacy max_tokens is sent to every model
ConvertRequestLegacyLimit(req, c) ==
    LET openaiModel == mapModel(req.Model, c)
        provider == DetectProvider(c)
        streaming == IsStreaming(req)
        reasoningModel == isReasoningModel(openaiModel)
    IN  [Model       |-> openaiModel,
         Messages    |-> convertMessages(req.Messages,
                                         extractSystemText(req.System)),
         Temperature |-> req.Temperature,
         TopP        |-> req.TopP,
         Stream      |-> req.Stream,
         StreamOptions |->
             IF streaming /\ provider \in {"openrouter", "openai"}
             THEN [include_usage |-> TRUE] ELSE <<>>,
         Usage |->
             IF streaming /\ provider = "openrouter"
             THEN [include |-> TRUE] ELSE <<>>,
         Reasoning |->
             IF streaming /\ provider = "openrouter"
             THEN [enabled |-> TRUE] ELSE <<>>,
         ReasoningEffort |->
             IF streaming /\ provider = "openai" THEN "medium" ELSE "",
         ToolChoice |->
             IF streaming /\ provider = "ollama" /\ Len(req.Tools) > 0
             THEN "required" ELSE "",
         MaxCompletionTokens |->
             IF req.MaxTokens > 0 /\ reasoningModel THEN req.MaxTokens ELSE 0,
         MaxTokens |-> IF req.MaxTokens > 0 THEN req.MaxTokens ELSE 0,
         Stop  |-> req.StopSequences,
         Tools |-> convertTools(req.Tools)]

\* part_003 494-571
ConvertRequest(req, c) ==
    LET openaiModel == mapModel(req.Model, c)
        provider == DetectProvider(c)
        streaming == IsStreaming(req)
        reasoningModel == isReasoningModel(openaiModel)
    IN  [Model       |-> openaiModel,
         Messages    |-> convertMessages(req.Messages,
                                         extractSystemText(req.System)),
         Temperature |-> req.Temperature,
         TopP        |-> req.TopP,
         Stream      |-> req.Stream,
         StreamOptions |->
             IF streaming /\ provider \in {"openrouter", "openai"}
             THEN [include_usage |-> TRUE] ELSE <<>>,
         Usage |->
             IF streaming /\ provider = "openrouter"
             THEN [include |-> TRUE] ELSE <<>>,
         Reasoning |->
             IF streaming /\ provider = "openrouter"
             THEN [enabled |-> TRUE] ELSE <<>>,
         ReasoningEffort |->
             IF streaming /\ provider = "openai" THEN "medium" ELSE "",
         ToolChoice |->
             IF streaming /\ provider = "ollama" /\ Len(req.Tools) > 0
             THEN "required" ELSE "",
         MaxCompletionTokens |->
             IF req.MaxTokens > 0 /\ reasoningModel THEN req.MaxTokens ELSE 0,
         MaxTokens |->
             IF req.MaxTokens > 0 /\ ~reasoningModel THEN req.MaxTokens ELSE 0,
         Stop  |-> req.StopSequences,
         Tools |-> convertTools(req.Tools)]

\* part_003 470-491
extractReasoningText(detail) ==
    LET detailType == IF Has(detail, "type") THEN detail.type ELSE ""
    IN  IF detailType = "reasoning.text" /\ Has(detail, "text")
        THEN detail.text
        ELSE IF detailType = "reasoning.summary" /\ Has(detail, "summary")
        THEN detail.summary
        ELSE EmptyString

\* part_003 834-847
convertFinishReason(openaiReason) ==
    CASE openaiReason = "stop" -> "end_turn"
      [] openaiReason = "length" -> "max_tokens"
      [] openaiReason = "tool_calls" -> "tool_use"
      [] openaiReason = "content_filter" -> "end_turn"
      [] OTHER -> "end_turn"

\* part_003 775-787
RECURSIVE ThinkingBlocks(_)
ThinkingBlocks(details) ==
    IF details = <<>> THEN <<>>
    ELSE LET detail == Head(details)
             thinkingText == IF detail.isObject
                             THEN extractReasoningText(detail)
                             ELSE EmptyString
         IN  (IF thinkingText # EmptyString
              THEN <<[Type |-> "thinking", Thinking |-> thinkingText]>>
              ELSE <<>>)
             \o ThinkingBlocks(Tail(details))

\* part_003 763-831: the Claude response, or the error of line 765
ConvertResponse(openaiResp, requestedModel) ==
    IF Len(openaiResp.Choices) = 0
    THEN [err |-> TRUE]
    ELSE LET choice == openaiResp.Choices[1]
             message == choice.Message
         IN  [err |-> FALSE,
              claudeResp |->
                [Type |-> "message",
                 Role |-> "assistant",
                 Content |->
                     ThinkingBlocks(message.ReasoningDetails)
                     \o (IF message.Content.kind = "string"
                            /\ message.Content.value # EmptyString
                         THEN <<[Type |-> "text",
                                 Text |-> message.Content.value]>>
                         ELSE <<>>)
                     \o [i \in DOMAIN message.ToolCalls |->
                            [Type  |-> "tool_use",
                             ID    |-> message.ToolCalls[i].ID,
                             Name  |-> message.ToolCalls[i].Function.Name,
                             Input |-> message.ToolCalls[i].Function.Arguments]],
                 Model |-> requestedModel,
                 StopReason |->
                     IF choice.FinishReason = "nil" THEN "nil"
                     ELSE convertFinishReason(choice.FinishReason),
                 Usage |-> [InputTokens  |-> openaiResp.Usage.PromptTokens,
                            OutputTokens |->
                                openaiResp.Usage.CompletionTokens]]]

-----------------------------------------------------------------------------
(* The HTTP surface and the upstream caller, handlers.go 19-265, 820-885.  *)
(* An upstream answer is [kind |-> "transport"] (client.Do fails: refused,  *)
(* reset, timeout), [kind |-> "readerror"] (the body cannot be read) or     *)
(* [kind |-> "http", status, text, ...] with the body's text; a 200 answer  *)
(* to a non-streaming request also says whether the body parses, and the    *)
(* parsed OpenAIResponse.                                                   *)

ErrorReply(status, errorType) ==
    [status |-> status,
     body |-> [type |-> "error", error |-> [type |-> errorType]]]

\* Mutant of KeyAccepted: a request without the header is let through
KeyAcceptedWhenMissing(c, apiKey) ==
    \/ c.AnthropicAPIKey = EmptyString
    \/ apiKey = c.AnthropicAPIKey
    \/ apiKey = EmptyString

\* handlers.go 40-52
KeyAccepted(c, apiKey) ==
    c.AnthropicAPIKey = EmptyString \/ apiKey = c.AnthropicAPIKey

\* An upstream request as it was sent, and the answer it got.  cacheRecord
\* is history: what the capability cache held for the request's model when
\* the request was sent
CacheRecord(model) ==
    IF model \notin Keys \/ cache[model] = NilCaps THEN "none"
    ELSE IF heap[cache[model]].UsesMaxCompletionTokens THEN "true"
    ELSE "false"

Attempt(request) ==
    [request |-> request, cacheRecord |-> CacheRecord(request.Model),
     answer |-> NoValue]

Answered(resp) == [attempts EXCEPT ![Len(attempts)].answer = resp]

\* handlers.go 19-96, 167-229: from the arrival of the request to the first
\* upstream request, or to the reply that ends it
HandleMessages(Configs, Requests) ==
    /\ rpc = "idle"
    /\ \E c \in Configs, req \in Requests :
          /\ cfg' = c
          /\ claudeReq' = req
          /\ IF ~req.bodyOK
             THEN /\ reply' = ErrorReply(400, "invalid_request_error")
                  /\ rpc' = "done"
                  /\ UNCHANGED <<openaiReq, attempts>>
             ELSE IF ~KeyAccepted(c, req.apiKey)
             THEN /\ reply' = ErrorReply(401, "authentication_error")
                  /\ rpc' = "done"
                  /\ UNCHANGED <<openaiReq, attempts>>
             ELSE /\ openaiReq' = ConvertRequest(req, c)
                  /\ attempts' = <<Attempt(openaiReq')>>
                  /\ IF IsStreaming(openaiReq')
                     THEN /\ reply' = [status |-> 200,
                                       body |-> [type |-> "event-stream"]]
                          /\ rpc' = "streamCall"
                     ELSE /\ reply' = NoValue
                          /\ rpc' = "call"
    /\ UNCHANGED <<upstreamResp, streamVars, cacheVars, call, daemonVars>>

\* Mutant of OnBadStatus: the request is sent again
OnBadStatusResend == "resend"

\* handlers.go 873-876: callOpenAI returns the error of a non-200 answer
OnBadStatus == "fail"

\* handlers.go 861-884: the error or the parsed response callOpenAI returns
callOpenAI(resp) ==
    IF resp.kind \in {"transport", "readerror"} THEN [err |-> TRUE]
    ELSE IF resp.status # 200 THEN [err |-> TRUE]
    ELSE IF ~resp.parses THEN [err |-> TRUE]
    ELSE [err |-> FALSE, openaiResp |-> resp.json]

\* Mutant of NonStreamingReply: an upstream error status is passed on
NonStreamingReplyUpstreamStatus(resp, req) ==
    LET called == callOpenAI(resp)
    IN  IF called.err
        THEN ErrorReply(IF resp.kind = "http" THEN resp.status ELSE 500,
                        "api_error")
        ELSE LET converted == ConvertResponse(called.openaiResp, req.Model)
             IN  IF converted.err
                 THEN ErrorReply(500, "api_error")
                 ELSE [status |-> 200, body |-> converted.claudeResp]

\* handlers.go 96-163: the reply to a non-streaming request
NonStreamingReply(resp, req) ==
    LET called == callOpenAI(resp)
    IN  IF called.err
        THEN ErrorReply(500, "api_error")
        ELSE LET converted == ConvertResponse(called.openaiResp, req.Model)
             IN  IF converted.err
                 THEN ErrorReply(500, "api_error")
                 ELSE [status |-> 200, body |-> converted.claudeResp]

\* handlers.go 96-163, 861-884: the upstream answers a non-streaming request
CallOpenAIReturns(Responses) ==
    /\ rpc = "call"
    /\ \E resp \in Responses :
          /\ upstreamResp' = resp
          /\ IF resp.kind = "http" /\ resp.status # 200
                /\ OnBadStatus = "resend"
             THEN /\ attempts' = Append(Answered(resp), Attempt(openaiReq))
                  /\ UNCHANGED <<rpc, reply>>
             ELSE /\ reply' = NonStreamingReply(resp, claudeReq)
                  /\ rpc' = "done"
                  /\ attempts' = Answered(resp)
    /\ UNCHANGED <<cfg, claudeReq, openaiReq, streamVars, cacheVars, call,
                   daemonVars>>

\* Mutant of OnBadStatusStreaming: the request is sent again
OnBadStatusStreamingResend == "resend"

\* handlers.go 243-250: the stream writer reports a non-200 answer and returns
OnBadStatusStreaming == "fail"

\* handlers.go 229-257: the upstream answers a streaming request; a 200
\* answer starts streamOpenAIToClaude on its body
StreamingResponse(Responses) ==
    /\ rpc = "streamCall"
    /\ \E resp \in Responses :
          /\ resp.kind # "readerror"
          /\ upstreamResp' = resp
          /\ IF resp.kind = "http" /\ resp.status # 200
                /\ OnBadStatusStreaming = "resend"
             THEN /\ attempts' = Append(Answered(resp), Attempt(openaiReq))
                  /\ UNCHANGED <<rpc, events>>
             ELSE IF resp.kind = "transport" \/ resp.status # 200
             THEN /\ events' = <<EvError>>
                  /\ rpc' = "done"
                  /\ attempts' = Answered(resp)
             ELSE /\ rpc' = "streaming"
                  /\ attempts' = Answered(resp)
                  /\ UNCHANGED events
    /\ UNCHANGED <<cfg, claudeReq, openaiReq, reply, pc, lines,
                   thinkingBlockStarted, thinkingBlockHasContent,
                   textBlockStarted, toolBlockCounter, currentToolCalls,
                   toolOrder, finalStopReason, usageData, cacheVars, call,
                   daemonVars>>

\* handlers.go 257: streamOpenAIToClaude runs on the body of the 200 answer
StreamBody(Lines) ==
    /\ rpc = "streaming"
    /\ StreamNext(Lines)

RequestNext(Configs, Requests, Responses, Lines) ==
    \/ HandleMessages(Configs, Requests)
    \/ CallOpenAIReturns(Responses)
    \/ StreamingResponse(Responses)
    \/ StreamBody(Lines)

-----------------------------------------------------------------------------
(* Upstream inputs *)

BlankLine == [kind |-> "blank"]

DoneLineValue == [kind |-> "done"]

\* choices[0] is null, a string or a number
NonObjectChoiceChunk == [choices |-> <<[isObject |-> FALSE]>>]

ToolCallsChunk(tcDeltas) == DeltaChunk([tool_calls |-> tcDeltas])

\* Reasoning, text and two tool calls in every order
BlockChunks ==
    {DeltaChunk([content |-> "t"]),
     DeltaChunk([reasoning_content |-> "r"]),
     DeltaChunk([reasoning |-> "r"]),
     DeltaChunk([reasoning_details |->
                    <<[type |-> "reasoning.text", text |-> "r"]>>]),
     ToolCallsChunk(<<[index |-> 0, id |-> "call_a",
                       function |-> [name |-> "f", arguments |-> <<"1">>]]>>),
     ToolCallsChunk(<<[index |-> 1, id |-> "call_b",
                       function |-> [name |-> "g"]]>>),
     ToolCallsChunk(<<[index |-> 1, function |-> [arguments |-> <<"1">>]]>>),
     FinishChunk(<<>>, "tool_calls"),
     FinishChunk([reasoning |-> "r",
                  reasoning_details |->
                      <<[type |-> "reasoning.summary", summary |-> "r"]>>,
                  content |-> "t",
                  tool_calls |->
                      <<[index |-> 1, id |-> "call_b",
                         function |-> [name |-> "g"]],
                        [index |-> 1,
                         function |-> [arguments |-> <<"1">>]]>>],
                 "tool_calls"),
     NonObjectChoiceChunk}

BlockLines ==
    {BlankLine, DoneLineValue} \cup {DataLine(chunk) : chunk \in BlockChunks}

\* The streaming transcoder on reasoning, text and tool-call chunks
Spec == Init /\ [][StreamNext(BlockLines)]_vars
\* Usage chunks before and after finish_reason chunks
UsageChunks ==
    {UsageChunk([prompt_tokens |-> 7, completion_tokens |-> 3]),
     UsageChunk([prompt_tokens |-> 9, completion_tokens |-> 4,
                 prompt_tokens_details |-> [cached_tokens |-> 5]]),
     [usage |-> [prompt_tokens |-> 2,
                 prompt_tokens_details |-> [cached_tokens |-> 0]],
      choices |-> <<>>],
     [usage |-> [prompt_tokens |-> 6, completion_tokens |-> 1],
      choices |-> <<[isObject |-> TRUE, delta |-> <<>>,
                     finish_reason |-> "stop"]>>],
     FinishChunk(<<>>, "length"),
     FinishChunk(<<>>, "tool_calls"),
     FinishChunk([content |-> "t"], "stop"),
     [choices |-> <<[isObject |-> TRUE, finish_reason |-> "length"]>>],
     [usage |-> [prompt_tokens |-> 8, completion_tokens |-> 2],
      choices |-> <<[isObject |-> FALSE]>>]}

UsageLines ==
    {BlankLine, DoneLineValue} \cup {DataLine(chunk) : chunk \in UsageChunks}

\* The streaming transcoder on usage and finish_reason chunks
SpecUsage == Init /\ [][StreamNext(UsageLines)]_vars

\* One tool call whose id, name and arguments arrive split in every way
ToolFunctions ==
    {[name |-> "f"], [name |-> ""]}
    \cup {[arguments |-> a] : a \in {<<"[">>, <<"]">>, <<"1">>}}
    \cup {[name |-> "f", arguments |-> a] : a \in {<<"[">>, <<"]">>, <<"1">>}}

ToolDeltas ==
    {[index |-> 0, id |-> "call_a"], [index |-> 0, id |-> ""]}
    \cup {[index |-> 0, function |-> fn] : fn \in ToolFunctions}
    \cup {[index |-> 0, id |-> "call_a", function |-> fn] :
             fn \in ToolFunctions \ {[name |-> ""]}}

ToolLines ==
    {BlankLine, DoneLineValue, DataLine(NonObjectChoiceChunk)}
    \cup {DataLine(ToolCallsChunk(<<tcDelta>>)) : tcDelta \in ToolDeltas}

\* The streaming transcoder on the fragments of one tool call
SpecTools == Init /\ [][StreamNext(ToolLines)]_vars
-----------------------------------------------------------------------------
(* The headers of the upstream request, handlers.go 206-222 and 836-854.   *)
(* Headers are a function from the names set to their values.               *)

bearer == <<"B", "e", "a", "r", "e", "r", " ">>

contentType == <<"a", "p", "p", "l", "i", "c", "a", "t", "i", "o", "n", "/",
    "j", "s", "o", "n">>

\* handlers.go 836-854: the headers callOpenAI sets
callOpenAIHeaders(c) ==
    [name \in {"Content-Type"} |-> contentType]
    @@ (IF ~IsLocalhost(c)
        THEN [name \in {"Authorization"} |-> bearer \o c.OpenAIAPIKey]
        ELSE <<>>)
    @@ (IF DetectProvider(c) = "openrouter" /\ c.OpenRouterAppURL # EmptyString
        THEN [name \in {"HTTP-Referer"} |-> c.OpenRouterAppURL]
        ELSE <<>>)
    @@ (IF DetectProvider(c) = "openrouter" /\ c.OpenRouterAppName # EmptyString
        THEN [name \in {"X-Title"} |-> c.OpenRouterAppName]
        ELSE <<>>)

\* handlers.go 206-222: the headers the stream writer sets
streamingHeaders(c) ==
    [name \in {"Content-Type"} |-> contentType]
    @@ (IF ~IsLocalhost(c)
        THEN [name \in {"Authorization"} |-> bearer \o c.OpenAIAPIKey]
        ELSE <<>>)
    @@ (IF DetectProvider(c) = "openrouter" /\ c.OpenRouterAppURL # EmptyString
        THEN [name \in {"HTTP-Referer"} |-> c.OpenRouterAppURL]
        ELSE <<>>)
    @@ (IF DetectProvider(c) = "openrouter" /\ c.OpenRouterAppName # EmptyString
        THEN [name \in {"X-Title"} |-> c.OpenRouterAppName]
        ELSE <<>>)

\* Base URLs naming the hosts in either case, alone and together
HostFragments ==
    {openrouterHost, <<"O", "p", "e", "n", "R", "o", "u", "t", "e", "r", ".",
        "A", "I">>, openaiHost, <<"A", "P", "I", ".", "O", "p", "e", "n",
        "A", "I", ".", "c", "o", "m">>, localhost,
     <<"L", "o", "c", "a", "l", "H", "o", "s", "t">>, loopback, <<"e", "x",
         "a", "m", "p", "l", "e", ".", "c", "o", "m", "/">>}

UpstreamConfigs ==
    [OpenAIBaseURL : Concatenations(HostFragments, MaxFragments),
     OpenAIAPIKey : {<<"s", "k">>},
     OpenRouterAppURL : {EmptyString, <<"h", "t", "t", "p", "s", ":", "/",
         "/", "a", "p", "p">>},
     OpenRouterAppName : {EmptyString, <<"a", "p", "p">>}]

HeadersCall ==
    /\ call = NoCall
    /\ \E c \in UpstreamConfigs, streaming \in BOOLEAN :
          call' = [fn |-> "headers", cfg |-> c, streaming |-> streaming,
                   provider |-> DetectProvider(c),
                   headers |-> IF streaming THEN streamingHeaders(c)
                               ELSE callOpenAIHeaders(c)]
    /\ UNCHANGED <<streamVars, cacheVars, reqVars, daemonVars>>

\* Provider detection and the request headers on base URLs of every class
SpecHeaders == Init /\ [][HeadersCall]_vars

-----------------------------------------------------------------------------
(* Requests, configurations and upstream answers *)

clientKey == <<"s", "e", "c", "r", "e", "t">>

otherKey == <<"g", "u", "e", "s", "s">>

\* ANTHROPIC_API_KEY unset or set; the sonnet tier routed to gpt-5 or gpt-4o
ServerConfigs ==
    {[AnthropicAPIKey |-> key, OpenAIAPIKey |-> <<"s", "k">>,
      OpenAIBaseURL |-> DefaultBaseURL, Debug |-> FALSE,
      OpusModel |-> EmptyString, SonnetModel |-> sonnetModel,
      HaikuModel |-> EmptyString] :
        key \in {EmptyString, clientKey}, sonnetModel \in {EmptyString,
            gpt4o}}

NoSystem == [kind |-> "none"]

ClaudeRequest(apiKey, model, maxTokens, stream) ==
    [bodyOK |-> TRUE, apiKey |-> apiKey, Model |-> model,
     Messages |-> <<[Role |-> "user", Content |-> StringContent(<<"h",
         "i">>)]>>,
     System |-> NoSystem, MaxTokens |-> maxTokens, Stream |-> stream,
     Temperature |-> "nil", TopP |-> "nil", StopSequences |-> <<>>,
     Tools |-> <<>>]

\* A body that is not JSON: c.Get("x-api-key") is all that is read of it
BadBody(apiKey) == [bodyOK |-> FALSE, apiKey |-> apiKey]

RequestKeys == {EmptyString, clientKey, otherKey}

TokenLimits == {0, 50}

ClaudeRequests ==
    {BadBody(apiKey) : apiKey \in RequestKeys}
    \cup {ClaudeRequest(apiKey, model, maxTokens, stream) :
             apiKey \in RequestKeys, model \in {opus, sonnet, gpt4o},
             maxTokens \in TokenLimits, stream \in {"nil", "true", "false"}}

TransportError == [kind |-> "transport"]

ReadError == [kind |-> "readerror"]

HTTPAnswer(status, text, parses, json) ==
    [kind |-> "http", status |-> status, text |-> text, parses |-> parses,
     json |-> json]

ParameterErrorText == <<"U", "n", "s", "u", "p", "p", "o", "r", "t", "e",
    "d", " ", "p", "a", "r", "a", "m", "e", "t", "e", "r", ":", " ", "'",
    "m", "a", "x", "_", "c", "o", "m", "p", "l", "e", "t", "i", "o", "n",
    "_", "t", "o", "k", "e", "n", "s", "'">>

InvalidKeyText == <<"I", "n", "v", "a", "l", "i", "d", " ", "A", "P", "I",
    " ", "k", "e", "y">>

ServerErrorText == <<"u", "p", "s", "t", "r", "e", "a", "m", " ", "t", "i",
    "m", "e", "o", "u", "t">>

OKText == <<"{", "c", "h", "o", "i", "c", "e", "s", "}">>

ChatCompletion ==
    [Choices |-> <<[Message |-> [Content |-> StringContent(<<"o", "k">>),
                                 ToolCalls |-> <<>>,
                                 ReasoningDetails |-> <<>>],
                    FinishReason |-> "stop"]>>,
     Usage |-> [PromptTokens |-> 3, CompletionTokens |-> 2]]

NoChoices ==
    [Choices |-> <<>>, Usage |-> [PromptTokens |-> 0, CompletionTokens |-> 0]]

\* Failures of every kind, a 200 answer that is no chat completion, and
\* a completion
UpstreamResponses ==
    {TransportError, ReadError,
     HTTPAnswer(400, ParameterErrorText, TRUE, NoChoices),
     HTTPAnswer(401, InvalidKeyText, TRUE, NoChoices),
     HTTPAnswer(504, ServerErrorText, FALSE, NoValue),
     HTTPAnswer(200, ServerErrorText, FALSE, NoValue),
     HTTPAnswer(200, ParameterErrorText, TRUE, NoChoices),
     HTTPAnswer(200, OKText, TRUE, ChatCompletion)}

\* Lines of a streamed body: passed over, unparseable, text, a chunk whose
\* choice is no object, and [DONE]
RequestLines ==
    {BlankLine, [kind |-> "badjson"], DoneLineValue,
     DataLine(DeltaChunk([content |-> "t"])), DataLine(NonObjectChoiceChunk)}

\* One client request from its arrival to the end of its reply
SpecRequest ==
    Init /\ [][RequestNext(ServerConfigs, ClaudeRequests, UpstreamResponses,
                           RequestLines)]_vars

\* Non-streaming requests for both models while the capability cache is read
\* and written by concurrent callers
AdaptiveConfigs == {c \in ServerConfigs : c.AnthropicAPIKey = EmptyString
                                          /\ c.SonnetModel = EmptyString}

AdaptiveRequests ==
    {ClaudeRequest(EmptyString, model, 50, "false") : model \in {opus, gpt4o}}

AdaptiveResponses ==
    {HTTPAnswer(400, ParameterErrorText, TRUE, NoChoices),
     HTTPAnswer(200, OKText, TRUE, ChatCompletion)}

\* ConvertRequest invoked while other requests write the capability cache
ConvertRequestCall ==
    /\ call = NoCall
    /\ \E c \in AdaptiveConfigs, model \in {opus, gpt4o},
          maxTokens \in TokenLimits, stream \in {"true", "false"} :
          LET req == ClaudeRequest(EmptyString, model, maxTokens, stream)
          IN  call' = [fn |-> "ConvertRequest", claudeReq |-> req, cfg |-> c,
                       result |-> ConvertRequest(req, c)]
    /\ UNCHANGED <<streamVars, cacheVars, reqVars, daemonVars>>

\* The puts of the other requests, one after another
FirstCaller == 1

ConcurrentPuts ==
    \/ PutBegin(FirstCaller)
    \/ PutLock(FirstCaller)
    \/ PutStamp(FirstCaller)
    \/ PutStore(FirstCaller)
    \/ PutReturn(FirstCaller)

ConvertRequestNext ==
    \/ ConvertRequestCall
    \/ ConcurrentPuts

SpecConvertRequest == Init /\ [][ConvertRequestNext]_vars

AdaptiveNext ==
    \/ CacheNext
    \/ HandleMessages(AdaptiveConfigs, AdaptiveRequests)
    \/ CallOpenAIReturns(AdaptiveResponses)

SpecAdaptive == Init /\ [][AdaptiveNext]_vars

\* Chunks that carry the same reasoning fragment in one, two or three of
\* delta.reasoning_content, delta.reasoning and delta.reasoning_details, a
\* second fragment in the details, and an empty delta.reasoning
ReasoningDeltas ==
    {[reasoning_content |-> "r"],
     [reasoning |-> "r"],
     [reasoning_details |-> <<[type |-> "reasoning.text", text |-> "r"]>>],
     [reasoning |-> "r",
      reasoning_details |-> <<[type |-> "reasoning.text", text |-> "r"]>>],
     [reasoning_details |-> <<[type |-> "reasoning.text", text |-> "r"],
                              [type |-> "reasoning.encrypted", data |-> "x"],
                              [type |-> "reasoning.summary", summary |-> "s"]>>],
     [reasoning |-> "",
      reasoning_details |-> <<[type |-> "reasoning.text", text |-> "r"]>>],
     [reasoning_content |-> "r", reasoning |-> "r"]}

ReasoningLines ==
    {BlankLine, DoneLineValue, DataLine(NonObjectChoiceChunk)}
    \cup {DataLine(DeltaChunk(delta)) : delta \in ReasoningDeltas}

\* The streaming transcoder on chunks with reasoning in every shape
SpecReasoning == Init /\ [][StreamNext(ReasoningLines)]_vars

\* Lines of every kind the loop tells apart, between chunks that change the
\* transcoder's state
MixedLines ==
    {BlankLine, [kind |-> "comment"], [kind |-> "nodata"], [kind |-> "badjson"],
     [kind |-> "nodata", text |-> DoneText],
     [kind |-> "badjson", text |-> DoneText],
     DoneLineValue,
     DataLine(DeltaChunk([content |-> "t"])),
     DataLine(DeltaChunk([content |-> DoneText])),
     DataLine(DeltaChunk([reasoning |-> DoneText])),
     DataLine(ToolCallsChunk(<<[index |-> 0, id |-> "call_a",
                                function |-> [name |-> "f",
                                              arguments |-> <<"1">>]]>>)),
     DataLine(ToolCallsChunk(<<[isObject |-> FALSE]>>)),
     DataLine(FinishChunk(<<>>, "length")),
     DataLine(NonObjectChoiceChunk)}

\* The streaming transcoder on lines of every kind
SpecLines == Init /\ [][StreamNext(MixedLines)]_vars

\* What an upstream choice may carry as finish_reason: the four values the
\* converter names, two it does not, the empty string, and none at all
FinishReasons ==
    {"stop", "length", "tool_calls", "content_filter", "function_call",
     "unknown", "", "nil"}

ResponseMessages ==
    [Content : {StringContent(<<"o", "k">>), StringContent(EmptyString),
                [kind |-> "null"]},
     ToolCalls : {<<>>, <<[ID |-> "call_a",
                           Function |-> [Name |-> "f",
                                         Arguments |-> <<"{", "}">>]]>>},
     ReasoningDetails : {<<>>, <<[isObject |-> TRUE,
                                  type |-> "reasoning.text",
                                  text |-> <<"r">>]>>}]

OpenAIResponses ==
    {NoChoices} \cup
    {[Choices |-> <<[Message |-> message, FinishReason |-> finishReason]>>,
      Usage |-> [PromptTokens |-> 3, CompletionTokens |-> 2]] :
         message \in ResponseMessages, finishReason \in FinishReasons}

ConvertResponseCall ==
    /\ call = NoCall
    /\ \E openaiResp \in OpenAIResponses,
          requestedModel \in {<<"o", "p", "u", "s">>,
                              <<"h", "a", "i", "k", "u">>} :
          call' = [fn |-> "ConvertResponse", openaiResp |-> openaiResp,
                   requestedModel |-> requestedModel,
                   result |-> ConvertResponse(openaiResp, requestedModel)]
    /\ UNCHANGED <<streamVars, cacheVars, reqVars, daemonVars>>

\* Response conversion on completions of every finish reason and shape
SpecResponse == Init /\ [][ConvertResponseCall]_vars

\* Base URLs of the four provider classes, a host in upper case among them
ProviderBaseURLs ==
    {<<"h", "t", "t", "p", "s", ":", "/", "/", "o", "p", "e", "n", "r", "o",
        "u", "t", "e", "r", ".", "a", "i", "/", "a", "p", "i", "/", "v",
        "1">>, <<"h", "t", "t", "p", "s", ":", "/", "/", "O", "p", "e", "n",
        "R", "o", "u", "t", "e", "r", ".", "A", "I", "/", "a", "p", "i", "/",
        "v", "1">>,
     DefaultBaseURL, <<"h", "t", "t", "p", ":", "/", "/", "l", "o", "c", "a",
         "l", "h", "o", "s", "t", ":", "1", "1", "4", "3", "4", "/", "v",
         "1">>, <<"h", "t", "t", "p", ":", "/", "/", "1", "2", "7", ".", "0",
         ".", "0", ".", "1", ":", "1", "1", "4", "3", "4", "/", "v", "1">>,
     <<"h", "t", "t", "p", "s", ":", "/", "/", "e", "x", "a", "m", "p", "l",
         "e", ".", "c", "o", "m", "/", "v", "1">>}

ProviderConfigs ==
    {[AnthropicAPIKey |-> EmptyString, OpenAIAPIKey |-> <<"s", "k">>,
      OpenAIBaseURL |-> baseURL, Debug |-> FALSE,
      OpusModel |-> EmptyString, SonnetModel |-> EmptyString,
      HaikuModel |-> EmptyString] : baseURL \in ProviderBaseURLs}

ToolLists ==
    {<<>>, <<[Name |-> "f", Description |-> "d", InputSchema |-> <<>>]>>}

ProviderRequests ==
    {[ClaudeRequest(EmptyString, model, maxTokens, stream)
         EXCEPT !.Tools = tools] :
        model \in {opus, gpt4o}, maxTokens \in TokenLimits,
        stream \in {"nil", "true", "false"}, tools \in ToolLists}

ProviderCall ==
    /\ call = NoCall
    /\ \E c \in ProviderConfigs, req \in ProviderRequests :
          call' = [fn |-> "ConvertRequest", claudeReq |-> req, cfg |-> c,
                   result |-> ConvertRequest(req, c)]
    /\ UNCHANGED <<streamVars, cacheVars, reqVars, daemonVars>>

\* Request conversion for every provider class, with and without tools
SpecProvider == Init /\ [][ProviderCall]_vars

-----------------------------------------------------------------------------
(* Reading the event stream *)

Positions == 1..Len(events)

IsType(j, type) == events[j].type = type

IsStart(j) == IsType(j, "content_block_start")

IsDelta(j) == IsType(j, "content_block_delta")

IsStop(j) == IsType(j, "content_block_stop")

IsBlockEvent(j) == IsStart(j) \/ IsDelta(j) \/ IsStop(j)

IsToolStart(j) == IsStart(j) /\ events[j].content_block.type = "tool_use"

Count(type) == Cardinality({j \in Positions : IsType(j, type)})

\* The transcoder has written its last event
Ended == pc \in {"done", "panicked"}

IsPrefix(a, b) == Len(a) <= Len(b) /\ SubSeq(b, 1, Len(a)) = a

RECURSIVE Flatten(_)
Flatten(seqs) ==
    IF seqs = <<>> THEN <<>> ELSE Head(seqs) \o Flatten(Tail(seqs))

-----------------------------------------------------------------------------
(* C1 *)

\* C1: every content_block_delta with index i comes after a
\* content_block_start for i and after no content_block_stop for i.
C1_DeltaInsideOpenBlock ==
    \A j \in Positions :
        IsDelta(j) =>
            /\ \E i \in 1..(j - 1) :
                   IsStart(i) /\ events[i].index = events[j].index
            /\ \A i \in 1..(j - 1) :
                   ~(IsStop(i) /\ events[i].index = events[j].index)

\* A finished stream with thinking, text and tool-argument deltas
C1_Witness ==
    /\ pc = "done"
    /\ \A kind \in {"thinking_delta", "text_delta", "input_json_delta"} :
           \E j \in Positions : IsDelta(j) /\ events[j].delta.type = kind

-----------------------------------------------------------------------------
(* C2 *)

\* C2: once the transcoder has ended, every content_block_start has exactly
\* one later content_block_stop with its index, written before message_delta.
C2_EveryStartStoppedOnce ==
    Ended =>
        \A j \in Positions :
            IsStart(j) =>
                /\ Cardinality({i \in Positions :
                                   /\ i > j
                                   /\ IsStop(i)
                                   /\ events[i].index = events[j].index}) = 1
                /\ \A i \in Positions :
                       (i > j /\ IsStop(i) /\ events[i].index = events[j].index)
                           => \E m \in Positions :
                                  m > i /\ IsType(m, "message_delta")

-----------------------------------------------------------------------------
(* C3 *)

\* C3: the thinking block has index 0, the text block index 1, and the k-th
\* tool-use block to be started has index k + 1.
C3_BlockIndexLayout ==
    \A j \in Positions :
        IsStart(j) =>
            LET block == events[j].content_block.type
                k == Cardinality({i \in 1..j : IsToolStart(i)})
            IN  /\ block = "thinking" => events[j].index = 0
                /\ block = "text" => events[j].index = 1
                /\ block = "tool_use" => events[j].index = k + 1

-----------------------------------------------------------------------------
(* C4 *)

\* C4: the indices of the started blocks are pairwise distinct and strictly
\* increasing in the order of their content_block_start events.
C4_StartIndicesIncreasing ==
    \A i, j \in Positions :
        (i < j /\ IsStart(i) /\ IsStart(j)) => events[i].index < events[j].index

-----------------------------------------------------------------------------
(* C5 *)

\* C5: the stream begins with exactly one message_start and one ping, and
\* once the transcoder has ended it ends with exactly one message_delta
\* followed by exactly one message_stop, all block events lying in between.
C5_StreamFraming ==
    /\ pc # "start" =>
           /\ Len(events) >= 2
           /\ IsType(1, "message_start")
           /\ IsType(2, "ping")
           /\ Count("message_start") = 1
           /\ Count("ping") = 1
    /\ Ended =>
           /\ Len(events) >= 4
           /\ IsType(Len(events) - 1, "message_delta")
           /\ IsType(Len(events), "message_stop")
           /\ Count("message_delta") = 1
           /\ Count("message_stop") = 1
           /\ \A j \in Positions :
                  IsBlockEvent(j) => (2 < j /\ j < Len(events) - 1)
-----------------------------------------------------------------------------
(* Reading the history of consumed lines *)

\* Line n was handed to the chunk processing and reached its delta
Processed(n) ==
    /\ lines[n].kind = "data"
    /\ HasDelta(lines[n].chunk)
    /\ ~(pc = "done" /\ n = Len(lines))

\* Line n is a chunk whose choices[0] has a non-empty finish_reason
CarriesFinishReason(n) ==
    /\ lines[n].kind = "data"
    /\ Has(lines[n].chunk, "choices")
    /\ lines[n].chunk.choices # <<>>
    /\ lines[n].chunk.choices[1].isObject
    /\ NonEmptyString(lines[n].chunk.choices[1], "finish_reason")

\* The chunk processing recorded the finish_reason of line n
IsFinishLine(n) == Processed(n) /\ CarriesFinishReason(n)

IsUsageLine(n) ==
    /\ lines[n].kind = "data"
    /\ Has(lines[n].chunk, "usage")
    /\ ~(pc = "done" /\ n = Len(lines))

\* Line n carried usage and no choice
IsUsageOnlyLine(n) ==
    /\ IsUsageLine(n)
    /\ \/ ~Has(lines[n].chunk, "choices")
       \/ lines[n].chunk.choices = <<>>

FinishPositions == {n \in 1..Len(lines) : IsFinishLine(n)}

UsagePositions == {n \in 1..Len(lines) : IsUsageLine(n)}

Last(S) == CHOOSE n \in S : \A m \in S : m <= n

TheMessageDelta == events[CHOOSE j \in Positions : IsType(j, "message_delta")]

TokenCount(usage, k) == IF Has(usage, k) THEN usage[k] ELSE 0

ExpectedStopReason(finishReason) ==
    CASE finishReason = "length" -> "max_tokens"
      [] finishReason = "tool_calls" -> "tool_use"
      [] finishReason = "function_call" -> "tool_use"
      [] OTHER -> "end_turn"

-----------------------------------------------------------------------------
(* C6 *)

-----------------------------------------------------------------------------
(* C7 *)

UsageFields ==
    {"input_tokens", "output_tokens", "cache_creation_input_tokens",
     "cache_read_input_tokens", "cache_creation"}

HasSixFields(usage) ==
    /\ DOMAIN usage = UsageFields
    /\ DOMAIN usage.cache_creation =
           {"ephemeral_5m_input_tokens", "ephemeral_1h_input_tokens"}

\* C7: the usage object of message_start and of message_delta carries all
\* six fields.
C7_UsageHasSixFields ==
    \A j \in Positions :
        (IsType(j, "message_start") \/ IsType(j, "message_delta"))
            => HasSixFields(events[j].usage)

-----------------------------------------------------------------------------
(* C8 *)

RECURSIVE ArgsIn(_, _)
\* The arguments fragments for tool call tcIndex in one tool_calls list
ArgsIn(tcDeltas, tcIndex) ==
    IF tcDeltas = <<>>
    THEN <<>>
    ELSE LET tcDelta == Head(tcDeltas)
             index == IF Has(tcDelta, "index") THEN tcDelta.index ELSE 0
         IN  (IF /\ index = tcIndex
                 /\ Has(tcDelta, "function")
                 /\ Has(tcDelta.function, "arguments")
              THEN tcDelta.function.arguments
              ELSE <<>>) \o ArgsIn(Tail(tcDeltas), tcIndex)

RECURSIVE ReceivedArgs(_, _)
\* All arguments fragments received for tool call tcIndex in lines 1..n
ReceivedArgs(n, tcIndex) ==
    IF n = 0
    THEN <<>>
    ELSE ReceivedArgs(n - 1, tcIndex)
         \o (IF Processed(n)
                /\ Has(lines[n].chunk.choices[1].delta, "tool_calls")
             THEN ArgsIn(lines[n].chunk.choices[1].delta.tool_calls, tcIndex)
             ELSE <<>>)

RECURSIVE EmittedJSON(_, _)
\* The partial_json values written for block index in events 1..j
EmittedJSON(j, index) ==
    IF j = 0
    THEN <<>>
    ELSE EmittedJSON(j - 1, index)
         \o (IF /\ IsDelta(j)
                /\ events[j].index = index
                /\ events[j].delta.type = "input_json_delta"
             THEN <<events[j].delta.partial_json>>
             ELSE <<>>)

\* C8: for every tool-use block the partial_json values, concatenated, are
\* a prefix of all arguments received for the tool call, and at the end of
\* the stream the last value is valid JSON equal to all arguments received.
C8_ArgumentsPrefix ==
    \A tcIndex \in DOMAIN currentToolCalls :
        currentToolCalls[tcIndex].Started =>
            LET emitted == EmittedJSON(Len(events),
                                       currentToolCalls[tcIndex].ClaudeIndex)
                received == ReceivedArgs(Len(lines), tcIndex)
            IN  /\ IsPrefix(Flatten(emitted), received)
                /\ (pc = "done" /\ emitted # <<>>) =>
                       /\ IsValidJSON(emitted[Len(emitted)])
                       /\ emitted[Len(emitted)] = received

-----------------------------------------------------------------------------
(* C9 *)

\* C9: after every delta, a tool call whose id and name are both non-empty
\* has had its content_block_start; a tool_use block is never started with
\* an empty id or name; no tool call is started twice.
C9_StartWhenIdAndNameKnown ==
    /\ \A tcIndex \in DOMAIN currentToolCalls :
           (currentToolCalls[tcIndex].ID # ""
               /\ currentToolCalls[tcIndex].Name # "")
               => currentToolCalls[tcIndex].Started
    /\ \A j \in Positions :
           IsToolStart(j) => /\ events[j].content_block.id # ""
                             /\ events[j].content_block.name # ""
    /\ Cardinality({j \in Positions : IsToolStart(j)}) =
           Cardinality({tcIndex \in DOMAIN currentToolCalls :
                           currentToolCalls[tcIndex].Started})

-----------------------------------------------------------------------------
(* C10 *)

\* The place of put `ptr` in the order in which the puts wrote, 0 if none
WritePosition(key, ptr) ==
    IF \E i \in 1..Len(writeLog[key]) : writeLog[key][i] = ptr
    THEN CHOOSE i \in 1..Len(writeLog[key]) : writeLog[key][i] = ptr
    ELSE 0

\* C10: a get that began after a put for its key had returned reads the
\* record of that put or of a put that wrote later, never nil or an
\* earlier record.
C10_ReadYourWrites ==
    \A c \in Callers :
        (cop[c].op = "get" /\ Has(cop[c], "result")) =>
            \A ptr \in cop[c].seen :
                /\ cop[c].result # NilCaps
                /\ WritePosition(cop[c].key, cop[c].result)
                       >= WritePosition(cop[c].key, ptr)

\* A get that began after one put had returned and read a later put's record
C10_Witness ==
    \E c \in Callers :
        /\ cop[c].op = "get"
        /\ Has(cop[c], "result")
        /\ cop[c].seen # {}
        /\ cop[c].result \notin cop[c].seen
        /\ cop[c].result # NilCaps

-----------------------------------------------------------------------------
(* C19 *)

\* The first of the tier keywords haiku, sonnet, opus that the lowercased
\* name contains, "none" if it contains none
TierOf(name) ==
    LET low == ToLower(name)
    IN  CASE Contains(low, haiku) -> "haiku"
          [] ~Contains(low, haiku) /\ Contains(low, sonnet) -> "sonnet"
          [] ~Contains(low, haiku) /\ ~Contains(low, sonnet)
               /\ Contains(low, opus) -> "opus"
          [] OTHER -> "none"

\* The default upstream models of section 6: gpt-5-mini, gpt-5, gpt-5
TierDefault ==
    [haiku  |-> <<"g", "p", "t", "-", "5", "-", "m", "i", "n", "i">>,
     sonnet |-> <<"g", "p", "t", "-", "5">>,
     opus   |-> <<"g", "p", "t", "-", "5">>]

TierOverride(c) ==
    [haiku |-> c.HaikuModel, sonnet |-> c.SonnetModel, opus |-> c.OpusModel]

-----------------------------------------------------------------------------
(* C20 *)

\* The base URL the configuration gets: OPENAI_BASE_URL, or the default
EffectiveBaseURL(env) ==
    IF env.OPENAI_BASE_URL = EmptyString
    THEN <<"h", "t", "t", "p", "s", ":", "/", "/", "a", "p", "i", ".", "o",
           "p", "e", "n", "a", "i", ".", "c", "o", "m", "/", "v", "1">>
    ELSE env.OPENAI_BASE_URL

\* C20: construction fails exactly when the key is empty and IsLocalhost is
\* false for the base URL; with an empty key and IsLocalhost true it succeeds
\* with a dummy key; a non-empty key is never changed.
C20_ConfigValidation ==
    call.fn = "LoadWithDebug" =>
        LET key == call.env.OPENAI_API_KEY
            isLocal == IsLocalhost([OpenAIBaseURL |->
                                       EffectiveBaseURL(call.env)])
        IN  /\ ~call.result.ok <=> (key = EmptyString /\ ~isLocal)
            /\ (key = EmptyString /\ isLocal) =>
                   /\ call.result.ok
                   /\ call.result.cfg.OpenAIAPIKey # EmptyString
            /\ key # EmptyString =>
                   /\ call.result.ok
                   /\ call.result.cfg.OpenAIAPIKey = key

-----------------------------------------------------------------------------
(* C18 *)

IsToolResult(block) ==
    block.isObject /\ Has(block, "type") /\ block.type = "tool_result"

IsTextItem(item) ==
    item.isObject /\ Has(item, "type") /\ item.type = "text" /\ Has(item, "text")

\* The flattening of section 4.4: a string as it is, a sequence of blocks as
\* the text fields of its text blocks with "\n" between them
Flattened(block) ==
    IF ~Has(block, "content") THEN <<>>
    ELSE IF block.content.kind = "string" THEN block.content.value
    ELSE IF block.content.kind = "blocks"
    THEN LET items == SelectSeq(block.content.blocks, IsTextItem)
         IN  Flatten([j \in DOMAIN items |->
                         IF j = 1 THEN items[j].text
                         ELSE <<"\n">> \o items[j].text])
    ELSE <<>>

\* The upstream messages built from input message i, without the history field
DerivedFrom(i) ==
    LET derived == SelectSeq(call.result, LAMBDA m : m.from = i)
    IN  [j \in DOMAIN derived |->
            [Role |-> derived[j].Role, Content |-> derived[j].Content,
             ToolCalls |-> derived[j].ToolCalls,
             ToolCallID |-> derived[j].ToolCallID]]

\* C18: an input message with at least one tool_result block yields exactly
\* one role "tool" message per tool_result block, in block order, with the
\* block's tool_use_id and flattened content, and no other message.
C18_ToolResultMessages ==
    call.fn = "convertMessages" =>
        \A i \in DOMAIN call.claudeMessages :
            LET msg == call.claudeMessages[i]
            IN  (msg.Content.kind = "blocks"
                 /\ \E k \in DOMAIN msg.Content.blocks :
                        IsToolResult(msg.Content.blocks[k]))
                =>
                LET results == SelectSeq(msg.Content.blocks, IsToolResult)
                IN  DerivedFrom(i) =
                        [j \in DOMAIN results |->
                            [Role |-> "tool",
                             Content |-> Flattened(results[j]),
                             ToolCalls |-> <<>>,
                             ToolCallID |->
                                 IF Has(results[j], "tool_use_id")
                                 THEN results[j].tool_use_id ELSE ""]]

\* A message with text, a string tool result and a block-list tool result,
\* converted to two tool messages with the second content "x\ny"
C18_Witness ==
    /\ call.fn = "convertMessages"
    /\ \E i \in DOMAIN call.claudeMessages :
          LET msg == call.claudeMessages[i]
          IN  /\ msg.Content.kind = "blocks"
              /\ Len(msg.Content.blocks) = 3
              /\ msg.Content.blocks[1] = TextBlock(<<"a">>)
              /\ IsToolResult(msg.Content.blocks[2])
              /\ IsToolResult(msg.Content.blocks[3])
              /\ Len(DerivedFrom(i)) = 2
              /\ DerivedFrom(i)[1].ToolCallID = "c1"
              /\ DerivedFrom(i)[1].Content = <<"4", "2">>
              /\ DerivedFrom(i)[2].Content = <<"x", "\n", "y">>

-----------------------------------------------------------------------------
(* C11 *)

InsidePut == {c \in Callers : cpc[c] \in {"stamp", "store", "unlock"}}

InsideGet == {c \in Callers : cpc[c] \in {"read", "runlock"}}

\* The record the n-th put of a key stored, nil before the first
RecordAt(key, n) == IF n = 0 THEN NilCaps ELSE writeLog[key][n]

-----------------------------------------------------------------------------
(* C12 *)

\* The token-limit field an upstream request carries (omitempty: a zero field
\* is not serialized)
TokenParameter(request) ==
    IF request.MaxCompletionTokens # 0 THEN "max_completion_tokens"
    ELSE IF request.MaxTokens # 0 THEN "max_tokens"
    ELSE "none"

\* C12: when the client request has max_tokens > 0, the first upstream request
\* carries max_tokens if the capability cache held a record saying false for
\* its model when it was sent, and max_completion_tokens if the record said
\* true or there was none, whatever the model's name.
C12_ParameterFromCache ==
    (attempts # <<>> /\ claudeReq.MaxTokens > 0) =>
        TokenParameter(attempts[1].request) =
            IF attempts[1].cacheRecord = "false" THEN "max_tokens"
            ELSE "max_completion_tokens"
-----------------------------------------------------------------------------
(* C14 *)

-----------------------------------------------------------------------------
(* C13 *)

\* handlers.go 1326-1338 (the rule as the repository documents it)
isMaxTokensParameterError(errorMessage) ==
    LET errorLower == ToLower(errorMessage)
        hasParamIndicator ==
            \/ Contains(errorLower, <<"p", "a", "r", "a", "m", "e", "t", "e", "r">>)
            \/ Contains(errorLower,
                        <<"u", "n", "s", "u", "p", "p", "o", "r", "t", "e", "d">>)
            \/ Contains(errorLower, <<"i", "n", "v", "a", "l", "i", "d">>)
        hasOurParam ==
            \/ Contains(errorLower,
                        <<"m", "a", "x", "_", "t", "o", "k", "e", "n", "s">>)
            \/ Contains(errorLower,
                        <<"m", "a", "x", "_", "c", "o", "m", "p", "l", "e", "t",
                          "i", "o", "n", "_", "t", "o", "k", "e", "n", "s">>)
    IN  hasParamIndicator /\ hasOurParam

\* The answer is an upstream error whose body matches the parameter-error
\* rule
IsParameterError(answer) ==
    /\ answer.kind = "http"
    /\ answer.status # 200
    /\ isMaxTokensParameterError(answer.text)

\* The answer is a failure: no answer at all, a body that cannot be read, a
\* status other than 200
IsFailure(answer) ==
    \/ answer.kind \in {"transport", "readerror"}
    \/ answer.kind = "http" /\ answer.status # 200

\* The reply to the client is finished
Replied == rpc = "done" \/ (rpc = "streaming" /\ Ended)

\* The client was told of an error: a 500 api_error reply, or an error event
\* on the event stream
ErrorReturned ==
    IF IsStreaming(claudeReq)
    THEN \E j \in Positions : events[j] = EvError
    ELSE reply = ErrorReply(500, "api_error")

-----------------------------------------------------------------------------
(* C15 *)

\* No put has begun and every entry of the capability cache is as it was
\* when the request arrived
CacheUntouched ==
    /\ heap = <<>>
    /\ \A key \in Keys : cache[key] = NilCaps /\ writeLog[key] = <<>>

\* C15: after an upstream failure whose body does not match the
\* parameter-error rule no second upstream request is sent, the capability
\* cache is as it was, and the reply tells the client of the error.
C15_OtherErrorsNotRetried ==
    (attempts # <<>> /\ IsFailure(attempts[1].answer)
        /\ ~IsParameterError(attempts[1].answer)) =>
        /\ Len(attempts) = 1
        /\ CacheUntouched
        /\ Replied => ErrorReturned

\* A streaming request was answered 401 with a body that says "invalid" but
\* names no token parameter, and the client has its reply
C15_Witness ==
    /\ rpc = "done"
    /\ attempts # <<>>
    /\ IsStreaming(claudeReq)
    /\ attempts[1].answer.kind = "http"
    /\ attempts[1].answer.status = 401
    /\ Contains(ToLower(attempts[1].answer.text),
                <<"i", "n", "v", "a", "l", "i", "d">>)
    /\ ~isMaxTokensParameterError(attempts[1].answer.text)
    /\ events = <<EvError>>
-----------------------------------------------------------------------------
(* C16 *)

Arrived == rpc # "idle"

KeyConfigured == cfg.AnthropicAPIKey # EmptyString

\* The x-api-key header is missing (c.Get returns "") or is another key
KeyMismatch == claudeReq.apiKey # cfg.AnthropicAPIKey

Unauthorized == reply = ErrorReply(401, "authentication_error")

\* C16 as stated: with a key configured every request whose x-api-key is
\* missing or different is answered 401 authentication_error and causes no
\* upstream request; with no key configured no request is refused.
C16_KeyChecked ==
    Arrived =>
        IF KeyConfigured
        THEN KeyMismatch => (Unauthorized /\ attempts = <<>>)
        ELSE ~Unauthorized

\* C16, amended: with a key configured a request whose body parses and whose
\* x-api-key is missing or different is answered 401 authentication_error; a
\* request whose body does not parse is answered 400 invalid_request_error
\* whatever its key; neither causes an upstream request.  With no key
\* configured no request is answered 401, and every request whose body parses
\* is sent upstream whatever key it presents.
C16_KeyCheckedAfterParsing ==
    Arrived =>
        /\ ~claudeReq.bodyOK =>
              /\ reply = ErrorReply(400, "invalid_request_error")
              /\ attempts = <<>>
        /\ (claudeReq.bodyOK /\ KeyConfigured /\ KeyMismatch) =>
              /\ Unauthorized
              /\ attempts = <<>>
        /\ (claudeReq.bodyOK /\ KeyConfigured /\ ~KeyMismatch) =>
              /\ ~Unauthorized
              /\ attempts # <<>>
        /\ ~KeyConfigured =>
              /\ ~Unauthorized
              /\ claudeReq.bodyOK => attempts # <<>>

\* A request without x-api-key, its body well-formed, was refused by a
\* proxy that has a key configured
C16_Witness ==
    /\ Arrived
    /\ KeyConfigured
    /\ claudeReq.bodyOK
    /\ claudeReq.apiKey = EmptyString
    /\ Unauthorized
    /\ attempts = <<>>
-----------------------------------------------------------------------------
(* C17 *)

LastAnswer == attempts[Len(attempts)].answer

\* The body of a 200 answer to a non-streaming request does not decode
UndecodableBody ==
    LastAnswer.kind = "http" /\ LastAnswer.status = 200 /\ ~LastAnswer.parses

\* A line of the streamed body does not decode
UndecodableLine == \E i \in DOMAIN lines : lines[i].kind = "badjson"

\* The upstream connection was lost while the body was streamed
ConnectionLost == \E i \in DOMAIN lines : lines[i].kind = "readerror"

IsApiError(r) ==
    /\ r.status = 500
    /\ r.body.type = "error"
    /\ r.body.error.type = "api_error"

\* Exactly one error event, with an api_error payload, and it is the last
\* event of the response
OneErrorEventLast ==
    /\ events # <<>>
    /\ events[Len(events)].type = "error"
    /\ events[Len(events)].error.type = "api_error"
    /\ Count("error") = 1

\* C17 as stated: a transport error, a non-200 status or an undecodable body
\* yields 500 api_error for a non-streaming request, and for a streaming
\* request one error event with an api_error payload, after which no event
\* is written.
C17_UpstreamFailureReported ==
    (Replied /\ attempts # <<>>) =>
        IF IsStreaming(claudeReq)
        THEN (IsFailure(LastAnswer) \/ ConnectionLost \/ UndecodableLine)
                 => OneErrorEventLast
        ELSE (IsFailure(LastAnswer) \/ UndecodableBody) => IsApiError(reply)

\* C17, amended: for a non-streaming request a transport error, an
\* unreadable body, a non-200 status, a body that does not decode or that has
\* no choices yields 500 api_error, and anything else 200.  For a streaming
\* request a transport error, a non-200 status or the loss of the connection
\* while the body is streamed yields one error event with an api_error
\* payload, which is the last event written; otherwise no error event is
\* written, and a line that does not decode is passed over.
C17_FailureReportedLineSkipped ==
    /\ \A j \in Positions : events[j].type = "error" => j = Len(events)
    /\ (Replied /\ attempts # <<>>) =>
          IF IsStreaming(claudeReq)
          THEN IF IsFailure(LastAnswer) \/ ConnectionLost
               THEN OneErrorEventLast
               ELSE Count("error") = 0
          ELSE IF \/ IsFailure(LastAnswer)
                  \/ UndecodableBody
                  \/ LastAnswer.json.Choices = <<>>
               THEN IsApiError(reply)
               ELSE reply.status = 200 /\ reply.body.Type = "message"

\* Non-streaming: the upstream answered 504 and the client got 500 api_error
C17_Witness ==
    /\ rpc = "done"
    /\ attempts # <<>>
    /\ ~IsStreaming(claudeReq)
    /\ LastAnswer.kind = "http"
    /\ LastAnswer.status = 504
    /\ IsApiError(reply)
-----------------------------------------------------------------------------
(* C21 *)

\* sub occurs in s when the case of the letters of s is disregarded
ContainsFold(s, sub) ==
    \E i \in 0..(Len(s) - Len(sub)) :
        \A j \in 1..Len(sub) : ToLowerChar(s[i + j]) = sub[j]

NamesOpenRouter(url) == ContainsFold(url, openrouterHost)

NamesOpenAI(url) == ContainsFold(url, openaiHost)

NamesLocalhost(url) == ContainsFold(url, localhost) \/ ContainsFold(url, loopback)

\* C21: the provider class is openrouter when the base URL names
\* openrouter.ai in any case, else openai when it names api.openai.com, else
\* ollama when it names localhost or 127.0.0.1, else unknown; the upstream
\* request carries Authorization exactly when the URL does not name localhost
\* or 127.0.0.1, hence never for the ollama class; HTTP-Referer and X-Title
\* are carried only for the openrouter class.
C21_ProviderAndHeaders ==
    call.fn = "headers" =>
        LET url == call.cfg.OpenAIBaseURL
            sent == DOMAIN call.headers
        IN  /\ call.provider =
                   (IF NamesOpenRouter(url) THEN "openrouter"
                    ELSE IF NamesOpenAI(url) THEN "openai"
                    ELSE IF NamesLocalhost(url) THEN "ollama"
                    ELSE "unknown")
            /\ "Authorization" \in sent <=> ~NamesLocalhost(url)
            /\ call.provider = "ollama" => "Authorization" \notin sent
            /\ (\/ "HTTP-Referer" \in sent
                \/ "X-Title" \in sent) => call.provider = "openrouter"

\* A streaming request to a base URL that spells OpenRouter.AI with capitals
\* and also names localhost: openrouter class, both openrouter headers, no
\* Authorization
C21_Witness ==
    /\ call.fn = "headers"
    /\ call.streaming
    /\ call.provider = "openrouter"
    /\ ~Contains(call.cfg.OpenAIBaseURL, openrouterHost)
    /\ NamesLocalhost(call.cfg.OpenAIBaseURL)
    /\ DOMAIN call.headers = {"Content-Type", "HTTP-Referer", "X-Title"}
-----------------------------------------------------------------------------
(* C22 *)

IsThinkingDelta(j) == IsDelta(j) /\ events[j].delta.type = "thinking_delta"

\* C22: every thinking delta is a content_block_delta at index 0 that carries
\* its fragment in the field named thinking, whichever of
\* delta.reasoning_content, delta.reasoning_details and delta.reasoning it
\* came from.
C22_ThinkingField ==
    \A j \in Positions :
        IsThinkingDelta(j) =>
            /\ events[j].index = thinkingBlockIndex
            /\ Has(events[j].delta, "thinking")
-----------------------------------------------------------------------------
(* C23 *)

-----------------------------------------------------------------------------
(* C24 *)

IsStopEvent(ev) == ev.type = "content_block_stop"

\* The indices of the content_block_stop events, in the order written
StopIndices ==
    LET stops == SelectSeq(events, IsStopEvent)
    IN  [k \in DOMAIN stops |-> stops[k].index]

IsStartedTool(key) == currentToolCalls[key].Started

\* The indices of the started tool-use blocks, in the order in which the
\* tool entries were first seen
StartedToolIndices ==
    LET started == SelectSeq(toolOrder, IsStartedTool)
    IN  [k \in DOMAIN started |-> currentToolCalls[started[k]].ClaudeIndex]

\* C24: at the end of a stream the content_block_stop events are: the text
\* block's if it was started, then those of the started tool-use blocks in
\* the order in which their entries were first seen, then the thinking
\* block's if it has content.
C24_StopOrder ==
    pc = "done" =>
        StopIndices =
            (IF textBlockStarted THEN <<textBlockIndex>> ELSE <<>>)
            \o StartedToolIndices
            \o (IF thinkingBlockStarted /\ thinkingBlockHasContent
                THEN <<thinkingBlockIndex>> ELSE <<>>)
-----------------------------------------------------------------------------
(* C25 *)

\* The attempt got what its request asked for: a completion the client was
\* sent, or a 200 answer whose body is streamed
Succeeded(attempt) ==
    /\ attempt.answer.kind = "http"
    /\ attempt.answer.status = 200
    /\ IsStreaming(attempt.request) \/ reply.status = 200

\* C25: when the reply is finished, the capability cache says true for the
\* upstream model if the only attempt carried max_completion_tokens, found
\* no record and succeeded; it says false if a second attempt was made and
\* succeeded; and it is untouched if the last attempt failed.
C25_CacheLearns ==
    (Replied /\ attempts # <<>>) =>
        LET first == attempts[1]
            last == attempts[Len(attempts)]
        IN  /\ (/\ Len(attempts) = 1
                /\ TokenParameter(first.request) = "max_completion_tokens"
                /\ first.cacheRecord = "none"
                /\ Succeeded(first)) =>
                   CacheRecord(first.request.Model) = "true"
            /\ (Len(attempts) = 2 /\ Succeeded(last)) =>
                   CacheRecord(first.request.Model) = "false"
            /\ ~Succeeded(last) => CacheUntouched
-----------------------------------------------------------------------------
(* C26 *)

\* The answer's body matches the parameter-error rule, whatever its status
HasParameterErrorBody(answer) ==
    answer.kind = "http" /\ isMaxTokensParameterError(answer.text)

\* C26: when the first attempt carried max_completion_tokens and was answered
\* with a body matching the parameter-error rule, a second attempt was made
\* by the time the reply is finished, whether the status was 200 or not.
C26_RetryDecidedByBody ==
    (Replied /\ attempts # <<>>
        /\ TokenParameter(attempts[1].request) = "max_completion_tokens"
        /\ HasParameterErrorBody(attempts[1].answer)) =>
        Len(attempts) = 2
-----------------------------------------------------------------------------
(* C27 *)

\* The line is a chunk whose choices[0] has a non-empty finish_reason,
\* and it is not the [DONE] line
HasFinishReason(line) ==
    /\ line.kind = "data"
    /\ ~ContainsDone(line)
    /\ Has(line.chunk, "choices")
    /\ Len(line.chunk.choices) > 0
    /\ line.chunk.choices[1].isObject
    /\ NonEmptyString(line.chunk.choices[1], "finish_reason")

TranslatedFinishReason(finishReason) ==
    CASE finishReason = "length" -> "max_tokens"
      [] finishReason \in {"tool_calls", "function_call"} -> "tool_use"
      [] OTHER -> "end_turn"

\* What the claim says message_delta reports after the lines read so far
ClaimedStopReason ==
    LET carrying == SelectSeq(lines, HasFinishReason)
    IN  IF carrying = <<>> THEN "end_turn"
        ELSE TranslatedFinishReason(
                 carrying[Len(carrying)].chunk.choices[1].finish_reason)

\* C27: the stop_reason of message_delta is the translation of the last
\* non-empty finish_reason of any chunk of the stream, whatever else the chunk
\* has or lacks, and end_turn when no chunk carried one.
C27_LastFinishReason ==
    \A j \in Positions :
        IsType(j, "message_delta") =>
            events[j].stop_reason = ClaimedStopReason
-----------------------------------------------------------------------------
(* C28 *)

\* The fragment a thinking delta carries
FragmentOf(j) ==
    IF Has(events[j].delta, "thinking") THEN events[j].delta.thinking
    ELSE events[j].delta.text

\* The thinking deltas that carry the fragment
Emissions(fragment) ==
    {j \in Positions : IsThinkingDelta(j) /\ FragmentOf(j) = fragment}

DetailFragments(delta) ==
    IF Has(delta, "reasoning_details")
    THEN {DetailText(delta.reasoning_details[k]) :
             k \in DOMAIN delta.reasoning_details}
    ELSE {}

\* The non-empty reasoning fragments of a delta, in whichever field
ReasoningFragments(delta) ==
    ((IF Has(delta, "reasoning_content") THEN {delta.reasoning_content} ELSE {})
     \cup (IF Has(delta, "reasoning") THEN {delta.reasoning} ELSE {})
     \cup DetailFragments(delta)) \ {""}

\* Exactly one chunk with a delta has been read, as line n
OnlyChunkIs(n) ==
    /\ lines[n].kind = "data"
    /\ HasDelta(lines[n].chunk)
    /\ \A m \in DOMAIN lines : m # n => lines[m].kind # "data"

\* C28: of a chunk's reasoning fragments, each non-empty one is emitted as
\* exactly one thinking_delta, and when the chunk has delta.reasoning its
\* reasoning_details add no thinking delta of their own.
C28_FragmentEmittedOnce ==
    \A n \in DOMAIN lines :
        OnlyChunkIs(n) =>
            LET delta == lines[n].chunk.choices[1].delta
            IN  /\ \A fragment \in ReasoningFragments(delta) :
                       Cardinality(Emissions(fragment)) = 1
                /\ Has(delta, "reasoning") =>
                       \A fragment \in DetailFragments(delta) \ {delta.reasoning} :
                           Emissions(fragment) = {}
-----------------------------------------------------------------------------
(* C29 *)

\* The line just read is blank, a comment, without the "data: " prefix, or a
\* data line whose payload is not JSON; it is not the line data: [DONE]
ReadsPassedOverLine ==
    /\ lines' # lines
    /\ lines'[Len(lines')].kind \in {"blank", "comment", "nodata", "badjson"}

\* C29: reading a blank line, a comment line, a line without the "data: "
\* prefix or a data line whose payload is not valid JSON writes no event,
\* changes no part of the transcoder's state, and leaves the loop running.
C29_PassedOverLines ==
    [][ReadsPassedOverLine =>
           /\ pc' = "loop"
           /\ UNCHANGED <<events, thinkingBlockStarted, thinkingBlockHasContent,
                          textBlockStarted, toolBlockCounter, currentToolCalls,
                          finalStopReason, usageData>>]_vars
-----------------------------------------------------------------------------
(* C30 *)

StopReasons == {"end_turn", "max_tokens", "tool_use"}

ClaimedNonStreamingStopReason(finishReason) ==
    CASE finishReason = "length" -> "max_tokens"
      [] finishReason = "tool_calls" -> "tool_use"
      [] OTHER -> "end_turn"

\* C30: the stop_reason of a converted non-streaming response is one of
\* end_turn, max_tokens and tool_use: stop gives end_turn, length gives
\* max_tokens, tool_calls gives tool_use, content_filter gives end_turn, and
\* any other finish_reason, or none, gives end_turn.
C30_NonStreamingStopReason ==
    (call.fn = "ConvertResponse" /\ ~call.result.err) =>
        LET stopReason == call.result.claudeResp.StopReason
            finishReason == call.openaiResp.Choices[1].FinishReason
        IN  /\ stopReason \in StopReasons
            /\ stopReason = ClaimedNonStreamingStopReason(finishReason)
-----------------------------------------------------------------------------
(* C31 *)

ProviderClass(c) ==
    IF NamesOpenRouter(c.OpenAIBaseURL) THEN "openrouter"
    ELSE IF NamesOpenAI(c.OpenAIBaseURL) THEN "openai"
    ELSE IF NamesLocalhost(c.OpenAIBaseURL) THEN "ollama"
    ELSE "unknown"

IncludesUsage(openaiRequest) ==
    /\ Has(openaiRequest.StreamOptions, "include_usage")
    /\ openaiRequest.StreamOptions.include_usage

IsolatedParameters(openaiRequest, class, tools) ==
    /\ openaiRequest.Reasoning # <<>> => class = "openrouter"
    /\ openaiRequest.Usage # <<>> => class = "openrouter"
    /\ openaiRequest.ReasoningEffort # "" => class = "openai"
    /\ ~(openaiRequest.Reasoning # <<>> /\ openaiRequest.ReasoningEffort # "")
    /\ openaiRequest.ToolChoice = "required"
           <=> (class = "ollama" /\ Len(tools) > 0)

\* C31: for every provider class the upstream request of a streaming client
\* request carries stream_options.include_usage = true; reasoning and
\* usage.include are present only for openrouter, reasoning_effort only for
\* openai, never both; tool_choice = "required" is present exactly for
\* ollama with at least one tool.
C31_ProviderParameters ==
    (call.fn = "ConvertRequest" /\ IsStreaming(call.claudeReq)) =>
        /\ IncludesUsage(call.result)
        /\ IsolatedParameters(call.result, ProviderClass(call.cfg),
                              call.claudeReq.Tools)
-----------------------------------------------------------------------------
(* C32 *)

\* The processes whose Start has returned nil and that are still running
Started == {p \in Procs : startResult[p] = "nil" /\ Alive(p)}

\* C32: Start fails and leaves the PID file untouched whenever a proxy
\* instance is already running, so at most one process at a time has started
\* successfully, and that process owns the PID file, also when several
\* processes run the startup sequence at the same time.
C32_SingleInstance ==
    /\ Cardinality(Started) <= 1
    /\ \A p \in Started : pidFile = FileOf(PIDOf(p))
-----------------------------------------------------------------------------
(* C33 *)

\* C33: message_stop, once written, is the last event of the response: no
\* event of any type, an error event for a failed read of the upstream body
\* included, is written after it.
C33_MessageStopLast ==
    \A j \in Positions : IsType(j, "message_stop") => j = Len(events)
-----------------------------------------------------------------------------
(* C34 *)

\* Every block that was started has been stopped
StartedBlocksStopped ==
    \A i \in Positions :
        IsStart(i) =>
            \E j \in (i + 1)..Len(events) :
                IsStop(j) /\ events[j].index = events[i].index

\* C34: a data line whose payload is valid JSON, whatever its shape, is
\* processed or skipped without aborting the transcoder: once the transcoder
\* has written its last event, every started block has its
\* content_block_stop and message_delta and message_stop have been written.
C34_NoAbortOnValidJSON ==
    Ended =>
        /\ StartedBlocksStopped
        /\ Count("message_delta") = 1
        /\ Count("message_stop") = 1
-----------------------------------------------------------------------------
(* C35 *)

\* C35: only the sentinel line ends the chunk loop; a JSON chunk whose text
\* or reasoning contains the characters [DONE] is processed like any other
\* chunk and the loop goes on to the chunks that follow it, so the line on
\* which the loop ended and the final events were written is never a chunk.
C35_OnlySentinelEndsLoop ==
    (pc = "done" /\ lines # <<>>) => lines[Len(lines)].kind # "data"
-----------------------------------------------------------------------------
(* C36 *)

\* C36: an upstream request built from a client request with max_tokens > 0
\* carries exactly one of max_tokens and max_completion_tokens, and that one
\* has the client's value, for every model and every state of the capability
\* cache.
C36_OneTokenLimit ==
    (call.fn = "ConvertRequest" /\ call.claudeReq.MaxTokens > 0) =>
        LET request == call.result
        IN  /\ (request.MaxTokens # 0) # (request.MaxCompletionTokens # 0)
            /\ IF request.MaxTokens # 0
               THEN request.MaxTokens = call.claudeReq.MaxTokens
               ELSE request.MaxCompletionTokens = call.claudeReq.MaxTokens

\* A request for a model the cache holds a record for, carrying
\* max_completion_tokens
C36_Witness ==
    /\ call.fn = "ConvertRequest"
    /\ call.claudeReq.MaxTokens > 0
    /\ TokenParameter(call.result) = "max_completion_tokens"
    /\ \E key \in Keys : cache[key] # NilCaps
-----------------------------------------------------------------------------
(* C37 *)

\* The upstream message carries the text in its content
CarriesText(message, text) ==
    /\ message.Role # "tool"
    /\ Contains(message.Content, text)

\* Every text block of input message i is in the content of an upstream
\* message built from it
TextKept(i) ==
    LET msg == call.claudeMessages[i]
    IN  msg.Content.kind = "blocks" =>
            \A k \in DOMAIN msg.Content.blocks :
                IsTextItem(msg.Content.blocks[k]) =>
                    \E j \in DOMAIN call.result :
                        /\ call.result[j].from = i
                        /\ CarriesText(call.result[j],
                                       msg.Content.blocks[k].text)

\* C37: no conversation text is lost: every text block of every input
\* message is in the content of an upstream message built from that message,
\* also next to tool_result and tool_use blocks, and the upstream messages
\* keep the order of the input messages they were built from.
C37_NoTextLost ==
    call.fn = "convertMessages" =>
        /\ \A i \in DOMAIN call.claudeMessages : TextKept(i)
        /\ \A j, k \in DOMAIN call.result :
               j < k => call.result[j].from <= call.result[k].from
-----------------------------------------------------------------------------
(* C38 *)

StartsOf(index) == {j \in Positions : IsStart(j) /\ events[j].index = index}

\* C38: within one streamed message every block index has at most one
\* content_block_start: the thinking block and the text block are opened at
\* most once however reasoning and text chunks interleave, and no two tool
\* calls share a block index.
C38_OneStartPerIndex ==
    \A j \in Positions : IsStart(j) => StartsOf(events[j].index) = {j}

\* Reasoning after text after reasoning and two tool calls, each block
\* started once
C38_Witness ==
    /\ Ended
    /\ Len(lines) >= 4
    /\ lines[1].kind = "data" /\ HasDelta(lines[1].chunk)
    /\ Has(lines[1].chunk.choices[1].delta, "reasoning")
    /\ lines[2].kind = "data" /\ HasDelta(lines[2].chunk)
    /\ Has(lines[2].chunk.choices[1].delta, "content")
    /\ lines[3].kind = "data" /\ HasDelta(lines[3].chunk)
    /\ Has(lines[3].chunk.choices[1].delta, "reasoning")
    /\ Cardinality(StartsOf(thinkingBlockIndex)) = 1
    /\ Cardinality(StartsOf(textBlockIndex)) = 1
    /\ Cardinality({j \in Positions : IsToolStart(j)}) = 2
-----------------------------------------------------------------------------
(* C39 *)

\* A tool_use block was started before event j
ToolStartedBefore(j) == \E i \in 1..(j - 1) : IsToolStart(i)

\* A tool_use block was started and stopped before event j
ToolStartedAndStoppedBefore(j) ==
    \E i \in 1..(j - 1) :
        /\ IsToolStart(i)
        /\ \E k \in (i + 1)..(j - 1) :
               IsStop(k) /\ events[k].index = events[i].index

\* C39: the stop_reason agrees with the blocks that were sent: when a
\* tool_use block was started, message_delta reports tool_use, and when
\* message_delta reports tool_use, a tool_use block was started and stopped.
C39_StopReasonAgreesWithBlocks ==
    \A j \in Positions :
        IsType(j, "message_delta") =>
            /\ ToolStartedBefore(j) => events[j].stop_reason = "tool_use"
            /\ events[j].stop_reason = "tool_use"
                   => ToolStartedAndStoppedBefore(j)

=============================================================================
